---- MODULE Spec2Model ----
(***************************************************************************)
(* OS RACER multi-threaded kernel (src/main.cpp): the input, physics,     *)
(* render and sound loops over the shared register bus, the vehicle record *)
(* (PCB) guarded by g_player_mutex, the track tables and the game state.   *)
(*                                                                         *)
(* Numbers.  The program computes in float; the model computes the same    *)
(* formulas in fixed point with Q units per 1.0 and truncating division.   *)
(* The fixed step is a parameter of the kinematic operators (dtN/dtD       *)
(* seconds).  The threaded specifications run the kernel at a coarse step  *)
(* of DtTicks clock ticks of TickSeconds seconds each, so that a race ends *)
(* within a few fixed steps; the program's own value is 1/PHYSICS_HZ.      *)
(***************************************************************************)
EXTENDS Integers, Sequences, FiniteSets, TLC

\* ------------------------------------------------------------------ bounds
Q == 100            \* fixed-point units per 1.0
TickSeconds == 6    \* seconds per clock tick of the threaded model
DtTicks == 2        \* clock ticks per fixed step (dt = DtTicks * TickSeconds s)
MaxElapsed == 3     \* largest time one pass of the physics loop measures, ticks
MaxTime == 6        \* total time a recorded clock advances in one behaviour, ticks
MaxRepeats == 1     \* keyboard auto-repeats of a held Escape in one behaviour

\* ------------------------------------------------- kernel parameter table
PHYSICS_HZ == 240
ROAD_WIDTH_LIMIT == 1
PLAYER_HALF_WIDTH_E2 == 18
MAX_SPEED == 50
MIN_SPEED == 15          \* the literal -15.0f of the speed clamp
ACCELERATION == 17
DECELERATION == 20
FRICTION_E4 == 9999
LATERAL_FACTOR_E4 == 4
STEER_COMPENSATION_E3 == 2
HEADING_TURN_SPEED_E1 == 4
HEADING_DRIFT_FACTOR_E3 == 4

\* enum GameState
BOOT_MENU == "BOOT_MENU"
MAP_SELECT == "MAP_SELECT"
KERNEL_RUNNING == "KERNEL_RUNNING"
GAME_WIN == "GAME_WIN"
GAME_OVER == "GAME_OVER"
SYSTEM_HALT == "SYSTEM_HALT"
GameState == {BOOT_MENU, MAP_SELECT, KERNEL_RUNNING, GAME_WIN, GAME_OVER, SYSTEM_HALT}

\* ----------------------------------------------------------------- helpers
Max(a, b) == IF a >= b THEN a ELSE b
Min(a, b) == IF a <= b THEN a ELSE b
\* float product/quotient rounded toward zero
TDiv(a, b) == IF a >= 0 THEN a \div b ELSE -((-a) \div b)

\* --------------------------------------------------------------- the track
Seg(curvE1, len) ==
    [fCurvature |-> (curvE1 * Q) \div 10, fDistance |-> len * Q, vecObstacles |-> <<>>]
Obs(d, offE1, wE1) ==
    [fSegDistance |-> d * Q, fOffsetX |-> TDiv(offE1 * Q, 10), fWidth |-> (wE1 * Q) \div 10]
\* an obstacle put in front of those the segment already has
WithObsFront(t, i, o) == [t EXCEPT ![i].vecObstacles = << o >> \o @]
\* t[i].vecObstacles.push_back(o)
WithObs(t, i, o) ==
    [t EXCEPT ![i].vecObstacles = Append(t[i].vecObstacles, o)]

\* BuildTrackData(id, t): the table of the three maps (t[i] of the source is
\* element i+1 here)
BuildTrackData(id) ==
    IF id = 1 THEN
        << Seg(0, 80), Seg(6, 250), Seg(-6, 250), Seg(0, 100), Seg(8, 200), Seg(0, 120) >>
    ELSE IF id = 2 THEN
        LET t0 == << Seg(0, 100), Seg(7, 150), Seg(-5, 150), Seg(9, 200), Seg(0, 100),
                     Seg(-8, 180), Seg(6, 200), Seg(0, 150), Seg(10, 120), Seg(0, 100) >>
            t1 == WithObs(t0, 5, Obs(20, 4, 3))
            t2 == WithObs(t1, 5, Obs(70, -5, 4))
        IN  WithObs(t2, 6, Obs(80, 6, 3))
    ELSE IF id = 3 THEN
        LET t0 == << Seg(0, 100), Seg(8, 200), Seg(-6, 150), Seg(6, 180), Seg(-8, 200),
                     Seg(5, 150), Seg(-5, 150), Seg(8, 200), Seg(-8, 200), Seg(0, 100) >>
            t1 == WithObs(t0, 2, Obs(50, -6, 3))
            t2 == WithObs(t1, 2, Obs(150, 6, 3))
            t3 == WithObs(t2, 4, Obs(40, 0, 5))
            t4 == WithObs(t3, 6, Obs(100, -4, 4))
        IN  WithObs(t4, 8, Obs(70, 3, 2))
    ELSE << >>

RECURSIVE SumLengthTail(_)
\* a sum that leaves out the first segment
SumLengthTail(t) ==
    IF t = << >> THEN 0
    ELSE IF Len(t) = 1 THEN 0 ELSE t[2].fDistance + SumLengthTail(Tail(t))
RECURSIVE SumLength(_)
\* for (auto& s : vecTrack) fTotalTrackLength += s.fDistance
SumLength(t) == IF t = << >> THEN 0 ELSE Head(t).fDistance + SumLength(Tail(t))

\* t.clear() left out: the vector keeps what it held
TrackKeep(t) == t
\* t.clear()
TrackClear(t) == << >>

\* the points one segment adds, for (d = 0; d < seg.fDistance; d += STEP): one
\* point per unit of length, the heading growing by seg.fCurvature * 0.01 at each.
\* A point is recorded as the heading accumulated at it, in units of 1/(100 Q)
\* rad: its coordinates are the running sums of sinf and cosf of these headings.
SegPoints(angle, seg) ==
    [k \in 1..((seg.fDistance + Q - 1) \div Q) |-> angle + k * seg.fCurvature]

RECURSIVE PointsFrom(_, _)
PointsFrom(t, angle) ==
    IF t = << >> THEN << >>
    ELSE LET pts == SegPoints(angle, Head(t))
         IN  pts \o PointsFrom(Tail(t), angle + Len(pts) * Head(t).fCurvature)

\* GenerateMapPoints(track, points): points.clear(), then the walk from angle 0
GenerateMapPoints(track) == PointsFrom(track, 0)

RECURSIVE LengthUpTo(_, _)
\* the lengths of the first n segments of t, added up
LengthUpTo(t, n) == IF n = 0 THEN 0 ELSE LengthUpTo(t, n - 1) + t[n].fDistance

RECURSIVE Scan(_, _, _, _)
\* while (section < size && pos >= vecTrack[section].fDistance) { pos -= ...; section++ }
\* section counts from 0 as in the source; start is fSegStartDistance
Scan(t, section, pos, start) ==
    IF section < Len(t) /\ pos >= t[section + 1].fDistance
    THEN Scan(t, section + 1, pos - t[section + 1].fDistance, start + t[section + 1].fDistance)
    ELSE [section |-> section, pos |-> pos, start |-> start]

RECURSIVE StepScanPast(_, _, _)
\* a scan that leaves a segment only when pos is beyond its length
StepScanPast(t, section, pos) ==
    IF section < Len(t) /\ pos > t[section + 1].fDistance
    THEN StepScanPast(t, section + 1, pos - t[section + 1].fDistance)
    ELSE [section |-> section, pos |-> pos]
RECURSIVE StepScan(_, _, _)
\* the scan of the fixed step:
\* while (section < size && pos >= vecTrack[section].fDistance) { pos -= ...; section++ }
StepScan(t, section, pos) ==
    IF section < Len(t) /\ pos >= t[section + 1].fDistance
    THEN StepScan(t, section + 1, pos - t[section + 1].fDistance)
    ELSE [section |-> section, pos |-> pos]

\* ----------------------------------------------------------------- the PCB
\* struct PlayerPCB with its default member initialisers
PlayerPCB ==
    [fX_Register |-> 0, fSpeed |-> 0, fDistance |-> 0, fCurvature |-> 0,
     fPlayerCurvature |-> 0, fHeadingAngle |-> 0, bCrashed |-> FALSE, nSteerState |-> 0]

\* a reset that leaves the crash flag
ResetKeepCrash(p) == [PlayerPCB EXCEPT !.bCrashed = p.bCrashed]
\* a reset that leaves the steer state
ResetKeepSteer(p) == [PlayerPCB EXCEPT !.nSteerState = p.nSteerState]
\* void Reset() { *this = PlayerPCB(); }
Reset(p) == PlayerPCB

\* a clamp without the lower bound
ClampSpeedNoFloor(s) == Min(MAX_SPEED * Q, s)
\* a clamp that lands one unit inside the upper bound
ClampSpeedInside(s) == Max(-(MIN_SPEED * Q), Min(MAX_SPEED * Q, s) - 1)
\* max(-15.0f, min(MAX_SPEED, s))
ClampSpeed(s) == Max(-(MIN_SPEED * Q), Min(MAX_SPEED * Q, s))

\* first half of the fixed step: steer state, speed, clamp, distance, finish
StepLongitudinal(p, steer, accel, brake, total, dtN, dtD) ==
    LET s0 == IF ~p.bCrashed
              THEN (IF accel THEN p.fSpeed + TDiv(ACCELERATION * Q * dtN, dtD)
                             ELSE TDiv(p.fSpeed * FRICTION_E4, 10000))
                   - (IF brake THEN TDiv(DECELERATION * Q * dtN, dtD) ELSE 0)
              ELSE 0
        s1 == ClampSpeed(s0)
        d1 == p.fDistance + TDiv(s1 * dtN, dtD)
        win == d1 >= total
    IN  [p |-> [p EXCEPT !.nSteerState = steer, !.fSpeed = s1,
                         !.fDistance = IF win THEN total ELSE d1],
         win |-> win]

\* float targetCurv = 0.0f; ... if (section < size) targetCurv = vecTrack[section].fCurvature
TargetCurv(t, d) ==
    LET sc == StepScan(t, 0, d)
    IN  IF sc.section < Len(t) THEN t[sc.section + 1].fCurvature ELSE 0

\* second half of the fixed step: segment lookup, curvature filter, lateral
\* force, heading
StepLateral(p, t, dtN, dtD) ==
    LET targetCurv == TargetCurv(t, p.fDistance)
        c1 == p.fCurvature + TDiv((targetCurv - p.fCurvature) * dtN * 3, dtD)
        pc1 == p.fPlayerCurvature + TDiv(TDiv(c1 * p.fSpeed, Q * 100) * dtN, dtD)
        \* (fInertiaSlide + compensation + headingDrift) * 40 * dt, term by term
        fInertiaSlide == TDiv(TDiv(-(c1 * p.fSpeed) * LATERAL_FACTOR_E4 * 4, 1000) * dtN, Q * dtD)
        compensation == TDiv(p.nSteerState * STEER_COMPENSATION_E3 * 2 * Q * dtN, 100 * dtD)
        headingDrift == TDiv(TDiv(p.fHeadingAngle * p.fSpeed * HEADING_DRIFT_FACTOR_E3 * 4, 100) * dtN, Q * dtD)
        turn == TDiv(HEADING_TURN_SPEED_E1 * Q * dtN, 10 * dtD)
        h1 == IF p.nSteerState = -1 THEN p.fHeadingAngle - turn
              ELSE IF p.nSteerState = 1 THEN p.fHeadingAngle + turn
              ELSE TDiv(p.fHeadingAngle * 95, 100)
    IN  [p EXCEPT !.fCurvature = c1, !.fPlayerCurvature = pc1,
                  !.fX_Register = p.fX_Register + fInertiaSlide + compensation + headingDrift,
                  !.fHeadingAngle = h1]

\* PLAYER_HALF_WIDTH in fixed point
HalfWidth == (PLAYER_HALF_WIDTH_E2 * Q) \div 100

\* a boundary test that finds every vehicle off the road
OffRoadAlways(p) == TRUE
\* the road limits with strict comparisons
OffRoadStrict(p) ==
    \/ p.fX_Register - HalfWidth < -(ROAD_WIDTH_LIMIT * Q)
    \/ p.fX_Register + HalfWidth > ROAD_WIDTH_LIMIT * Q
\* the test of EnforceBoundaryProtection
OffRoad(p) ==
    \/ p.fX_Register - HalfWidth <= -(ROAD_WIDTH_LIMIT * Q)
    \/ p.fX_Register + HalfWidth >= ROAD_WIDTH_LIMIT * Q

\* the obstacle test with intervals that collide when they touch
HitsObstacleTouching(p, obs, fDistInSeg) ==
    /\ fDistInSeg >= obs.fSegDistance - Q \div 2
    /\ fDistInSeg <= obs.fSegDistance + Q \div 2
    /\ Max(p.fX_Register - HalfWidth, obs.fOffsetX - obs.fWidth \div 2)
           <= Min(p.fX_Register + HalfWidth, obs.fOffsetX + obs.fWidth \div 2)
\* the obstacle test of CheckObstacleCollision for one obstacle
HitsObstacle(p, obs, fDistInSeg) ==
    /\ fDistInSeg >= obs.fSegDistance - Q \div 2
    /\ fDistInSeg <= obs.fSegDistance + Q \div 2
    /\ LET fPlayerLeft == p.fX_Register - HalfWidth
           fPlayerRight == p.fX_Register + HalfWidth
           fObsLeft == obs.fOffsetX - obs.fWidth \div 2
           fObsRight == obs.fOffsetX + obs.fWidth \div 2
       IN  Max(fPlayerLeft, fObsLeft) < Min(fPlayerRight, fObsRight)

\* CheckObstacleCollision's scan of the active segment: TRUE when the band test
\* fDistInSeg >= obs.fSegDistance - 0.5f && fDistInSeg <= obs.fSegDistance + 0.5f
\* holds for some obstacle of it
ReachesBand(p, t) ==
    LET sc == Scan(t, 0, p.fDistance, 0)
    IN  /\ sc.section < Len(t)
        /\ \E i \in 1..Len(t[sc.section + 1].vecObstacles) :
              LET o == t[sc.section + 1].vecObstacles[i]
              IN  sc.pos >= o.fSegDistance - Q \div 2 /\ sc.pos <= o.fSegDistance + Q \div 2

\* CheckObstacleCollision's scan of the active segment: TRUE when some obstacle
\* of it is hit
Collides(p, t) ==
    LET sc == Scan(t, 0, p.fDistance, 0)
    IN  /\ sc.section < Len(t)
        /\ \E i \in 1..Len(t[sc.section + 1].vecObstacles) :
              HitsObstacle(p, t[sc.section + 1].vecObstacles[i], sc.pos)

\* ------------------------------------------------------------------- state
VARIABLES
    \* the keyboard, as GetAsyncKeyState reports it
    script,             \* the keys the user presses and releases, in order
    events,             \* key changes of the script the input loop has sampled
    keysDown,           \* the keys held at the input loop's previous sample
    repeats,            \* auto-repeats of a held Escape so far
    timed,              \* TRUE when the behaviour records and bounds the clock
    metered,            \* TRUE when the behaviour records the steps since Running
    \* InputThreadProc
    ipc, last,
    \* the register bus
    input_steer, input_accel, input_brake, input_escape, input_edge,
    warnObstacle, warnObstacleDist, warnObstacleOffsetX,
    sound_crash, sound_gameover, sound_win,
    \* game state, run flag, PCB and its mutex, track
    currentState, running, player, g_player_mutex,
    g_currentMapId, vecTrack, vecMapPointsCurrent, fTotalTrackLength,
    \* PhysicsThreadProc
    ppc, accumulator, found,
    \* RenderThreadProc
    rpc, st, nSelectedMap, snap, nSteer,
    \* SoundThreadProc
    spc, state,
    \* history
    det,                \* per flag: stores of true by the input loop
    obs,                \* per flag: exchanges of the consumer that returned true
    fresh,              \* per flag: stores of true since the consumer's last exchange
    edges,              \* per flag: rising edges of its key
    elapsedTotal,       \* time measured by the physics loop so far, ticks
    stepsDone,          \* fixed steps completed by the physics loop
    probed,             \* an obstacle check since the last PCB reset found the
                        \* in-segment offset inside an obstacle's band
    runAt,              \* elapsedTotal when Running was last stored (0 from a
                        \* PCB reset until then)
    runSteps,           \* fixed steps since then that found Running and advanced
                        \* the vehicle (both recorded when metered)
    ran,                \* the fixed step in progress found Game State Running
    raised,             \* per signal: stores of true by the physics loop
    runRaised,          \* per signal: stores of true since the last PCB reset
    unheard,            \* per signal: stores of true since the sound loop's last exchange
    taken               \* per signal: exchanges of the sound loop that returned true

envVars == << script, events, keysDown, repeats, timed, metered >>
inputVars == << ipc, last >>
keyRegs == << input_steer, input_accel, input_brake >>
edgeRegs == << input_escape, input_edge >>
warnRegs == << warnObstacle, warnObstacleDist, warnObstacleOffsetX >>
soundRegs == << sound_crash, sound_gameover, sound_win >>
trackVars == << g_currentMapId, vecTrack, vecMapPointsCurrent, fTotalTrackLength >>
physVars == << ppc, accumulator, found >>
renderVars == << rpc, st, nSelectedMap, snap, nSteer >>
audioVars == << spc, state >>
edgeHist == << det, obs, fresh, edges >>
timeHist == << elapsedTotal, stepsDone, probed, runAt, runSteps >>
sigHist == << ran, raised, runRaised, unheard, taken >>

vars == << envVars, inputVars, keyRegs, edgeRegs, warnRegs, soundRegs,
           currentState, running, player, g_player_mutex, trackVars,
           physVars, renderVars, audioVars, edgeHist, timeHist, sigHist >>

Keys == {"A", "D", "LEFT", "RIGHT", "W", "S", "UP", "DOWN", "SPACE", "1", "2", "3", "ESC"}
EdgeFlags == {"space", "up", "down", "1", "2", "3"}
Flags == EdgeFlags \cup {"escape"}
\* the one-shot signals of the sound registers
Signals == {"crash", "gameover", "win"}
\* the key each one-shot flag follows
KeyOf(f) ==
    CASE f = "space" -> "SPACE" [] f = "up" -> "UP" [] f = "down" -> "DOWN"
      [] f = "1" -> "1" [] f = "2" -> "2" [] f = "3" -> "3" [] f = "escape" -> "ESC"

\* the fixed step of the threaded model, in ticks and in seconds
DT == DtTicks
DtSeconds == DtTicks * TickSeconds

\* the state after construction (static initialisers, main's currentState = BOOT_MENU)
InitRun(keys, t, m) ==
    /\ script = keys /\ events = 0 /\ keysDown = {} /\ repeats = 0
    /\ timed = t /\ metered = m
    /\ ipc = "loop" /\ last = [f \in EdgeFlags |-> FALSE]
    /\ input_steer = 0 /\ input_accel = FALSE /\ input_brake = FALSE
    /\ input_escape = FALSE /\ input_edge = [f \in EdgeFlags |-> FALSE]
    /\ warnObstacle = FALSE /\ warnObstacleDist = 0 /\ warnObstacleOffsetX = 0
    /\ sound_crash = FALSE /\ sound_gameover = FALSE /\ sound_win = FALSE
    /\ currentState = BOOT_MENU /\ running = TRUE
    /\ player = PlayerPCB /\ g_player_mutex = "free"
    /\ g_currentMapId = 1 /\ vecTrack = << >> /\ vecMapPointsCurrent = << >>
    /\ fTotalTrackLength = 0
    /\ ppc = "loop" /\ accumulator = 0 /\ found = [dist |-> 0, off |-> 0]
    /\ rpc = "loop" /\ st = BOOT_MENU /\ nSelectedMap = 1
    /\ snap = [pX |-> 0, pSpeed |-> 0, pDist |-> 0, pCrashed |-> FALSE, pCurv |-> 0]
    /\ nSteer = 0
    /\ spc = "loop" /\ state = BOOT_MENU
    /\ det = [f \in Flags |-> 0] /\ obs = [f \in Flags |-> 0]
    /\ fresh = [f \in Flags |-> 0] /\ edges = [f \in Flags |-> 0]
    /\ elapsedTotal = 0 /\ stepsDone = 0 /\ probed = FALSE
    /\ runAt = 0 /\ runSteps = 0
    /\ ran = FALSE /\ raised = [s \in Signals |-> 0]
    /\ runRaised = [s \in Signals |-> 0] /\ taken = [s \in Signals |-> 0]
    /\ unheard = [s \in Signals |-> 0]
\* the same without the record of the steps since Running
InitWith(keys, t) == InitRun(keys, t, FALSE)

\* ---------------------------------------------------------------- the lock
\* a lock_guard that takes the mutex without waiting for it
LockNoWait(t) == g_player_mutex' = t
\* std::lock_guard<std::mutex> lk(g_player_mutex): waits until the mutex is free
Lock(t) == g_player_mutex = "free" /\ g_player_mutex' = t
\* a lock that is never given back (a scope that would not end)
UnlockNever(t) == g_player_mutex' = g_player_mutex
\* the end of a lock_guard's scope
Unlock(t) == g_player_mutex' = "free"
\* a lock_guard whose whole scope is one step of the model
Locked(t) == g_player_mutex = "free" /\ g_player_mutex' = "free"

\* ------------------------------------------------------------ input thread
\* if (now && !last) flag.store(true)
RisingEdge(now, was) == now /\ ~was

\* the key sets the next sample can find: the keys of the previous sample, or
\* those with the next key of the script pressed or released
NextHeld ==
    {keysDown}
    \cup (IF events < Len(script)
          THEN LET k == script[events + 1]
               IN  {IF k \in keysDown THEN keysDown \ {k} ELSE keysDown \cup {k}}
          ELSE {})

\* the low bit of GetAsyncKeyState(VK_ESCAPE): the key was pressed since the
\* previous call; a held key is pressed again by keyboard auto-repeat
EscapeLowBit(held) ==
    IF "ESC" \notin held THEN {FALSE}
    ELSE IF "ESC" \notin keysDown THEN {TRUE}
    ELSE IF repeats < MaxRepeats THEN {FALSE, TRUE} ELSE {FALSE}

\* one pass of the loop of InputThreadProc
InputThreadProc ==
    /\ ipc = "loop"
    /\ IF ~running
       THEN /\ ipc' = "done"
            /\ UNCHANGED << envVars, last, keyRegs, edgeRegs, edgeHist >>
       ELSE \E held \in NextHeld : \E low \in EscapeLowBit(held) :
            /\ keysDown' = held
            /\ events' = events + (IF held = keysDown THEN 0 ELSE 1)
            /\ repeats' = repeats + (IF low /\ "ESC" \in keysDown THEN 1 ELSE 0)
            /\ input_steer' = IF "D" \in held \/ "RIGHT" \in held THEN 1
                              ELSE IF "A" \in held \/ "LEFT" \in held THEN -1 ELSE 0
            /\ input_accel' = ("W" \in held \/ "UP" \in held)
            /\ input_brake' = ("S" \in held \/ "DOWN" \in held)
            /\ LET set(f) == IF f = "escape" THEN low
                             ELSE RisingEdge(KeyOf(f) \in held, last[f])
               IN  /\ input_edge' = [f \in EdgeFlags |-> set(f) \/ input_edge[f]]
                   /\ input_escape' = (set("escape") \/ input_escape)
                   /\ det' = [f \in Flags |-> det[f] + (IF set(f) THEN 1 ELSE 0)]
                   /\ fresh' = [f \in Flags |-> fresh[f] + (IF set(f) THEN 1 ELSE 0)]
            /\ last' = [f \in EdgeFlags |-> KeyOf(f) \in held]
            /\ edges' = [f \in Flags |->
                             edges[f] + (IF KeyOf(f) \in held \ keysDown THEN 1 ELSE 0)]
            /\ UNCHANGED << script, timed, metered, ipc, obs >>
    /\ UNCHANGED << warnRegs, soundRegs, currentState, running, player, g_player_mutex,
                    trackVars, physVars, renderVars, audioVars, timeHist, sigHist >>

\* ---------------------------------------------------------- physics thread
WARNING_RANGE == 50

RECURSIVE GlobalObstacles(_, _)
\* the obstacles of the track in list order, each with acc + obs.fSegDistance
GlobalObstacles(t, acc) ==
    IF t = << >> THEN << >>
    ELSE [i \in 1..Len(Head(t).vecObstacles) |->
              [dist |-> acc + Head(t).vecObstacles[i].fSegDistance,
               off |-> Head(t).vecObstacles[i].fOffsetX]]
         \o GlobalObstacles(Tail(t), acc + Head(t).fDistance)

\* the warning scan: the first obstacle in list order that lies ahead of
\* playerDist by at most WARNING_RANGE
WarnScan(t, playerDist) ==
    LET g == GlobalObstacles(t, 0)
        hit == {i \in 1..Len(g) : g[i].dist > playerDist
                                  /\ g[i].dist - playerDist <= WARNING_RANGE * Q}
    IN  IF hit = {} THEN [found |-> FALSE, dist |-> 0, off |-> 0]
        ELSE LET i == CHOOSE j \in hit : \A k \in hit : j <= k
             IN  [found |-> TRUE, dist |-> g[i].dist - playerDist, off |-> g[i].off]

\* the time one pass of the loop can measure: any time up to MaxElapsed when the
\* clock is recorded, else nothing or one fixed step
Elapsed == IF timed THEN 0..MaxElapsed ELSE {0, DT}

\* the loop test with a strict comparison
StepDueStrict(acc) == acc > DT
\* while (accumulator >= dt)
StepDue(acc) == acc >= DT

\* the record of a store of true to each signal of S
Raise(S) ==
    /\ raised' = [s \in Signals |-> raised[s] + (IF s \in S THEN 1 ELSE 0)]
    /\ runRaised' = [s \in Signals |-> runRaised[s] + (IF s \in S THEN 1 ELSE 0)]
    /\ unheard' = [s \in Signals |-> unheard[s] + (IF s \in S THEN 1 ELSE 0)]

\* a crash that leaves the speed as it is
CrashKeepSpeed ==
    /\ player' = [player EXCEPT !.bCrashed = TRUE]
    /\ currentState' = GAME_OVER
    /\ sound_crash' = TRUE
    /\ sound_gameover' = TRUE
    /\ Raise({"crash", "gameover"})
\* a crash that leaves Game State as it is
CrashKeepState ==
    /\ player' = [player EXCEPT !.bCrashed = TRUE, !.fSpeed = 0]
    /\ sound_crash' = TRUE
    /\ sound_gameover' = TRUE
    /\ Raise({"crash", "gameover"})
    /\ UNCHANGED currentState
\* the crash of EnforceBoundaryProtection and CheckObstacleCollision
Crash ==
    /\ player' = [player EXCEPT !.bCrashed = TRUE, !.fSpeed = 0]
    /\ currentState' = GAME_OVER
    /\ sound_crash' = TRUE
    /\ sound_gameover' = TRUE
    /\ Raise({"crash", "gameover"})

\* accumulator -= dt, and the next test of the inner loop
StepEnd ==
    /\ accumulator' = accumulator - DT
    /\ stepsDone' = IF timed THEN stepsDone + 1 ELSE stepsDone
    /\ ppc' = IF StepDue(accumulator') THEN "step" ELSE "loop"
    /\ ran' = FALSE
    /\ UNCHANGED << elapsedTotal, probed, runAt, runSteps >>

\* while (running.load()) { now = clock::now(); accumulator += now - last; ...
\* then the first test of the inner loop (Sleep(0) when no step is due)
PhysLoop ==
    /\ ppc = "loop"
    /\ IF ~running
       THEN ppc' = "done" /\ UNCHANGED << accumulator, elapsedTotal >>
       ELSE \E e \in Elapsed :
            /\ timed => elapsedTotal + e <= MaxTime
            /\ accumulator' = accumulator + e
            /\ elapsedTotal' = IF timed THEN elapsedTotal + e ELSE elapsedTotal
            /\ ppc' = IF StepDue(accumulator') THEN "step" ELSE "loop"
    /\ UNCHANGED << envVars, inputVars, audioVars, sigHist, keyRegs, edgeRegs, warnRegs,
                    soundRegs, currentState, running, player, g_player_mutex, trackVars,
                    found, renderVars, edgeHist, stepsDone, probed, runAt, runSteps >>

\* the lock_guard of the fixed step and its test of currentState
PhysStepEnter ==
    /\ ppc = "step"
    /\ IF currentState = KERNEL_RUNNING
       THEN Lock("physics") /\ ppc' = "body"
       ELSE Locked("physics") /\ ppc' = "enforce"
    /\ ran' = (currentState = KERNEL_RUNNING)
    /\ UNCHANGED << envVars, inputVars, audioVars, raised, runRaised, unheard, taken,
                    keyRegs, edgeRegs, warnRegs, soundRegs, currentState, running, player,
                    trackVars, accumulator, found, renderVars, edgeHist, timeHist >>

\* the fixed step: steer state, speed, clamp, distance and the finish test, then
\* segment lookup, curvature, lateral force and heading; the lock_guard ends
PhysStepBody ==
    /\ ppc = "body"
    /\ LET r == StepLongitudinal(player, input_steer, input_accel, input_brake,
                                 fTotalTrackLength, DtSeconds, 1)
       IN  /\ player' = StepLateral(r.p, vecTrack, DtSeconds, 1)
           /\ IF r.win
              THEN currentState' = GAME_WIN /\ sound_win' = TRUE /\ Raise({"win"})
              ELSE UNCHANGED << currentState, sound_win, raised, runRaised, unheard >>
    /\ Unlock("physics")
    /\ ppc' = "enforce"
    /\ runSteps' = IF metered THEN runSteps + 1 ELSE runSteps
    /\ UNCHANGED << envVars, inputVars, audioVars, ran, taken, keyRegs, edgeRegs, warnRegs,
                    sound_crash, sound_gameover, running, trackVars, accumulator, found,
                    renderVars, edgeHist, elapsedTotal, stepsDone, probed, runAt >>

\* EnforceBoundaryProtection()
EnforceBoundaryProtection ==
    /\ ppc = "enforce"
    /\ Locked("physics")
    /\ IF OffRoad(player) /\ ~player.bCrashed
       THEN Crash
       ELSE UNCHANGED << player, currentState, sound_crash, sound_gameover, raised,
                         runRaised, unheard >>
    /\ ppc' = "collide"
    /\ UNCHANGED << envVars, inputVars, audioVars, ran, taken, keyRegs, edgeRegs, warnRegs,
                    sound_win, running, trackVars, accumulator, found, renderVars, edgeHist,
                    timeHist >>

\* CheckObstacleCollision()
CheckObstacleCollision ==
    /\ ppc = "collide"
    /\ Locked("physics")
    /\ IF ~player.bCrashed /\ currentState = KERNEL_RUNNING /\ Collides(player, vecTrack)
       THEN Crash
       ELSE UNCHANGED << player, currentState, sound_crash, sound_gameover, raised,
                         runRaised, unheard >>
    /\ probed' = (probed \/ (~player.bCrashed /\ currentState = KERNEL_RUNNING
                                /\ ReachesBand(player, vecTrack)))
    /\ ppc' = "warn"
    /\ UNCHANGED << envVars, inputVars, audioVars, ran, taken, keyRegs, edgeRegs, warnRegs,
                    sound_win, running, trackVars, accumulator, found, renderVars, edgeHist,
                    elapsedTotal, stepsDone, runAt, runSteps >>

\* the obstacle warning: the scan and the store of warnObstacle
PhysWarnScan ==
    /\ ppc = "warn"
    /\ IF currentState = KERNEL_RUNNING
       THEN LET w == WarnScan(vecTrack, player.fDistance)
            IN  /\ warnObstacle' = w.found
                /\ found' = [dist |-> w.dist, off |-> w.off]
                /\ IF w.found
                   THEN ppc' = "warn_dist" /\ UNCHANGED << accumulator, timeHist, ran >>
                   ELSE StepEnd
       ELSE /\ warnObstacle' = FALSE
            /\ StepEnd
            /\ UNCHANGED found
    /\ UNCHANGED << envVars, inputVars, audioVars, raised, runRaised, unheard, taken,
                    keyRegs, edgeRegs, warnObstacleDist, warnObstacleOffsetX, soundRegs,
                    currentState, running, player, g_player_mutex, trackVars, renderVars,
                    edgeHist >>

\* warnObstacleDist.store(foundDistDelta)
PhysWarnDist ==
    /\ ppc = "warn_dist"
    /\ warnObstacleDist' = found.dist
    /\ ppc' = "warn_off"
    /\ UNCHANGED << envVars, inputVars, audioVars, sigHist, keyRegs, edgeRegs, warnObstacle,
                    warnObstacleOffsetX, soundRegs, currentState, running, player,
                    g_player_mutex, trackVars, accumulator, found, renderVars, edgeHist,
                    timeHist >>

\* warnObstacleOffsetX.store(foundOffsetX)
PhysWarnOffset ==
    /\ ppc = "warn_off"
    /\ warnObstacleOffsetX' = found.off
    /\ StepEnd
    /\ UNCHANGED << envVars, inputVars, audioVars, raised, runRaised, unheard, taken,
                    keyRegs, edgeRegs, warnObstacle, warnObstacleDist, soundRegs,
                    currentState, running, player, g_player_mutex, trackVars, found,
                    renderVars, edgeHist >>

PhysicsThreadProc ==
    \/ PhysLoop \/ PhysStepEnter \/ PhysStepBody
    \/ EnforceBoundaryProtection \/ CheckObstacleCollision
    \/ PhysWarnScan \/ PhysWarnDist \/ PhysWarnOffset

\* ----------------------------------------------------------- render thread
\* a load in place of the exchange: the flags stay set
TakeEdgeNoClear(fs) ==
    /\ obs' = [f \in Flags |-> obs[f] + (IF f \in fs /\ input_edge[f] THEN 1 ELSE 0)]
    /\ fresh' = [f \in Flags |-> IF f \in fs THEN 0 ELSE fresh[f]]
    /\ UNCHANGED << input_edge, input_escape, det, edges >>
\* an exchange that stores the negation of what it read
TakeEdgeInvert(fs) ==
    /\ input_edge' = [f \in EdgeFlags |-> IF f \in fs THEN ~input_edge[f] ELSE input_edge[f]]
    /\ obs' = [f \in Flags |-> obs[f] + (IF f \in fs /\ input_edge[f] THEN 1 ELSE 0)]
    /\ fresh' = [f \in Flags |-> IF f \in fs THEN 0 ELSE fresh[f]]
    /\ UNCHANGED << input_escape, det, edges >>
\* flag.exchange(false) on the one-shot flags fs: each is cleared; the caller
\* acts on the values the flags had
TakeEdge(fs) ==
    /\ input_edge' = [f \in EdgeFlags |-> IF f \in fs THEN FALSE ELSE input_edge[f]]
    /\ obs' = [f \in Flags |-> obs[f] + (IF f \in fs /\ input_edge[f] THEN 1 ELSE 0)]
    /\ fresh' = [f \in Flags |-> IF f \in fs THEN 0 ELSE fresh[f]]
    /\ UNCHANGED << input_escape, det, edges >>

\* input_escape.exchange(false)
TakeEscape ==
    /\ input_escape' = FALSE
    /\ obs' = [obs EXCEPT !["escape"] = @ + (IF input_escape THEN 1 ELSE 0)]
    /\ fresh' = [fresh EXCEPT !["escape"] = 0]
    /\ UNCHANGED << input_edge, det, edges >>

\* currentState = s by the render thread
RenderStore(s) == currentState' = s

\* while (running.load()) { ... GameState st = currentState.load();
RenderLoop ==
    /\ rpc = "loop"
    /\ IF ~running
       THEN rpc' = "done" /\ UNCHANGED st
       ELSE /\ st' = currentState
            /\ rpc' = CASE currentState = BOOT_MENU -> "boot_space"
                        [] currentState = MAP_SELECT -> "sel_nav"
                        [] currentState = SYSTEM_HALT -> "halt"
                        [] OTHER -> "snap1"
    /\ UNCHANGED << envVars, inputVars, audioVars, sigHist, keyRegs, edgeRegs, warnRegs,
                    soundRegs, currentState, running, player, g_player_mutex, trackVars,
                    physVars, nSelectedMap, snap, nSteer, edgeHist, timeHist >>

\* BOOT MENU: if (input_space_edge.exchange(false)) currentState = MAP_SELECT
RenderBootSpace ==
    /\ rpc = "boot_space"
    /\ TakeEdge({"space"})
    /\ IF input_edge["space"] THEN RenderStore(MAP_SELECT)
                              ELSE UNCHANGED currentState
    /\ rpc' = "boot_esc"
    /\ UNCHANGED << envVars, inputVars, audioVars, sigHist, keyRegs, warnRegs, soundRegs,
                    running, player, g_player_mutex, trackVars, physVars, st, nSelectedMap,
                    snap, nSteer, timeHist >>

\* BOOT MENU: if (input_escape.exchange(false)) currentState = SYSTEM_HALT
RenderBootEscape ==
    /\ rpc = "boot_esc"
    /\ TakeEscape
    /\ IF input_escape THEN RenderStore(SYSTEM_HALT)
                       ELSE UNCHANGED currentState
    /\ rpc' = "write"
    /\ UNCHANGED << envVars, inputVars, audioVars, sigHist, keyRegs, warnRegs, soundRegs,
                    running, player, g_player_mutex, trackVars, physVars, st, nSelectedMap,
                    snap, nSteer, timeHist >>

\* a selection whose Up and Down run past the ends of the list
SelectUnclamped(f, was, n) ==
    IF ~was THEN n
    ELSE CASE f = "up" -> n - 1 [] f = "down" -> n + 1
           [] f = "1" -> 1 [] f = "2" -> 2 [] f = "3" -> 3
\* the selection one flag makes when it was set
Select(f, was, n) ==
    IF ~was THEN n
    ELSE CASE f = "up" -> Max(1, n - 1) [] f = "down" -> Min(3, n + 1)
           [] f = "1" -> 1 [] f = "2" -> 2 [] f = "3" -> 3

\* MAP SELECT: the exchanges of the five selection flags, in the order of the code
RenderSelect ==
    /\ rpc = "sel_nav"
    /\ TakeEdge({"up", "down", "1", "2", "3"})
    /\ nSelectedMap' =
           Select("3", input_edge["3"],
             Select("2", input_edge["2"],
               Select("1", input_edge["1"],
                 Select("down", input_edge["down"],
                   Select("up", input_edge["up"], nSelectedMap)))))
    /\ rpc' = "sel_space"
    /\ UNCHANGED << envVars, inputVars, audioVars, sigHist, keyRegs, warnRegs, soundRegs,
                    currentState, running, player, g_player_mutex, trackVars, physVars, st,
                    snap, nSteer, timeHist >>

\* MAP SELECT: if (input_space_edge.exchange(false)) {
RenderSelSpace ==
    /\ rpc = "sel_space"
    /\ TakeEdge({"space"})
    /\ rpc' = IF input_edge["space"] THEN "load_clear" ELSE "sel_esc"
    /\ UNCHANGED << envVars, inputVars, audioVars, sigHist, keyRegs, warnRegs, soundRegs,
                    currentState, running, player, g_player_mutex, trackVars, physVars, st,
                    nSelectedMap, snap, nSteer, timeHist >>

\* LoadMap(id): g_currentMapId = id; BuildTrackData begins with t.clear()
LoadMapClear ==
    /\ rpc = "load_clear"
    /\ g_currentMapId' = nSelectedMap
    /\ vecTrack' = TrackClear(vecTrack)
    /\ rpc' = "load_build"
    /\ UNCHANGED << envVars, inputVars, audioVars, sigHist, keyRegs, edgeRegs, warnRegs,
                    soundRegs, currentState, running, player, g_player_mutex,
                    vecMapPointsCurrent, fTotalTrackLength, physVars, st, nSelectedMap,
                    snap, nSteer, edgeHist, timeHist >>

\* LoadMap(id): the push_backs of BuildTrackData onto the cleared vector
LoadMapBuild ==
    /\ rpc = "load_build"
    /\ vecTrack' = vecTrack \o BuildTrackData(g_currentMapId)
    /\ rpc' = "load_points"
    /\ UNCHANGED << envVars, inputVars, audioVars, sigHist, keyRegs, edgeRegs, warnRegs,
                    soundRegs, currentState, running, player, g_player_mutex,
                    g_currentMapId, vecMapPointsCurrent, fTotalTrackLength, physVars, st,
                    nSelectedMap, snap, nSteer, edgeHist, timeHist >>

\* LoadMap(id): GenerateMapPoints(vecTrack, vecMapPointsCurrent)
LoadMapPoints ==
    /\ rpc = "load_points"
    /\ vecMapPointsCurrent' = GenerateMapPoints(vecTrack)
    /\ rpc' = "load_zero"
    /\ UNCHANGED << envVars, inputVars, audioVars, sigHist, keyRegs, edgeRegs, warnRegs,
                    soundRegs, currentState, running, player, g_player_mutex,
                    g_currentMapId, vecTrack, fTotalTrackLength, physVars, st, nSelectedMap,
                    snap, nSteer, edgeHist, timeHist >>

\* LoadMap(id): fTotalTrackLength = 0.0f
LoadMapZero ==
    /\ rpc = "load_zero"
    /\ fTotalTrackLength' = 0
    /\ rpc' = "load_sum"
    /\ UNCHANGED << envVars, inputVars, audioVars, sigHist, keyRegs, edgeRegs, warnRegs,
                    soundRegs, currentState, running, player, g_player_mutex,
                    g_currentMapId, vecTrack, vecMapPointsCurrent, physVars, st,
                    nSelectedMap, snap, nSteer, edgeHist, timeHist >>

\* LoadMap(id): for (auto& s : vecTrack) fTotalTrackLength += s.fDistance
LoadMapSum ==
    /\ rpc = "load_sum"
    /\ fTotalTrackLength' = SumLength(vecTrack)
    /\ rpc' = "sel_reset"
    /\ UNCHANGED << envVars, inputVars, audioVars, sigHist, keyRegs, edgeRegs, warnRegs,
                    soundRegs, currentState, running, player, g_player_mutex,
                    g_currentMapId, vecTrack, vecMapPointsCurrent, physVars, st,
                    nSelectedMap, snap, nSteer, edgeHist, timeHist >>

\* { lock_guard lk(g_player_mutex); player.Reset(); } of MAP SELECT and of the
\* GAME OVER and VICTORY screens
RenderReset ==
    /\ rpc \in {"sel_reset", "end_reset"}
    /\ Locked("render")
    /\ player' = Reset(player)
    /\ runRaised' = [s \in Signals |-> 0]
    /\ probed' = FALSE
    /\ runAt' = 0
    /\ runSteps' = 0
    /\ rpc' = IF rpc = "sel_reset" THEN "sel_run" ELSE "end_select"
    /\ UNCHANGED << envVars, inputVars, audioVars, ran, raised, unheard, taken, keyRegs,
                    edgeRegs, warnRegs, soundRegs, currentState, running, trackVars,
                    physVars, st, nSelectedMap, snap, nSteer, edgeHist, elapsedTotal,
                    stepsDone >>

\* MAP SELECT: currentState = KERNEL_RUNNING
RenderSetRunning ==
    /\ rpc = "sel_run"
    /\ RenderStore(KERNEL_RUNNING)
    /\ runAt' = IF metered THEN elapsedTotal ELSE runAt
    /\ runSteps' = 0
    /\ rpc' = "sel_esc"
    /\ UNCHANGED << envVars, inputVars, audioVars, sigHist, keyRegs, edgeRegs, warnRegs,
                    soundRegs, running, player, g_player_mutex, trackVars, physVars, st,
                    nSelectedMap, snap, nSteer, edgeHist, elapsedTotal, stepsDone, probed >>

\* MAP SELECT: if (input_escape.exchange(false)) currentState = BOOT_MENU
RenderSelEscape ==
    /\ rpc = "sel_esc"
    /\ TakeEscape
    /\ IF input_escape THEN RenderStore(BOOT_MENU)
                       ELSE UNCHANGED currentState
    /\ rpc' = "write"
    /\ UNCHANGED << envVars, inputVars, audioVars, sigHist, keyRegs, warnRegs, soundRegs,
                    running, player, g_player_mutex, trackVars, physVars, st, nSelectedMap,
                    snap, nSteer, timeHist >>

\* RACING: the lock_guard of the snapshot;
\* pX = player.fX_Register; pSpeed = player.fSpeed; pDist = player.fDistance;
RenderSnap1 ==
    /\ rpc = "snap1"
    /\ Lock("render")
    /\ snap' = [snap EXCEPT !.pX = player.fX_Register, !.pSpeed = player.fSpeed,
                            !.pDist = player.fDistance]
    /\ rpc' = "snap2"
    /\ UNCHANGED << envVars, inputVars, audioVars, sigHist, keyRegs, edgeRegs, warnRegs,
                    soundRegs, currentState, running, player, trackVars, physVars, st,
                    nSelectedMap, nSteer, edgeHist, timeHist >>

\* pCrashed = player.bCrashed; pCurv = player.fCurvature; the lock_guard ends
RenderSnap2 ==
    /\ rpc = "snap2"
    /\ snap' = [snap EXCEPT !.pCrashed = player.bCrashed, !.pCurv = player.fCurvature]
    /\ Unlock("render")
    /\ rpc' = "steer"
    /\ UNCHANGED << envVars, inputVars, audioVars, sigHist, keyRegs, edgeRegs, warnRegs,
                    soundRegs, currentState, running, player, trackVars, physVars, st,
                    nSelectedMap, nSteer, edgeHist, timeHist >>

\* a racing frame that drops a pending Space
RenderReadSteerFlush ==
    /\ rpc = "steer"
    /\ nSteer' = player.nSteerState
    /\ input_edge' = [input_edge EXCEPT !["space"] = FALSE]
    /\ rpc' = "minimap"
    /\ UNCHANGED << envVars, inputVars, audioVars, sigHist, keyRegs, input_escape, warnRegs,
                    soundRegs, currentState, running, player, g_player_mutex, trackVars,
                    physVars, st, nSelectedMap, snap, edgeHist, timeHist >>
\* int nSteer = player.nSteerState;
RenderReadSteer ==
    /\ rpc = "steer"
    /\ nSteer' = player.nSteerState
    /\ rpc' = "minimap"
    /\ UNCHANGED << envVars, inputVars, audioVars, sigHist, keyRegs, edgeRegs, warnRegs,
                    soundRegs, currentState, running, player, g_player_mutex, trackVars,
                    physVars, st, nSelectedMap, snap, edgeHist, timeHist >>

\* DrawTrackView(..., vecMapPointsCurrent, true): the player's marker, read under
\* a lock_guard
DrawTrackView ==
    /\ rpc = "minimap"
    /\ Locked("render")
    /\ rpc' = IF st \in {GAME_OVER, GAME_WIN} THEN "end_space" ELSE "write"
    /\ UNCHANGED << envVars, inputVars, audioVars, sigHist, keyRegs, edgeRegs, warnRegs,
                    soundRegs, currentState, running, player, trackVars, physVars, st,
                    nSelectedMap, snap, nSteer, edgeHist, timeHist >>

\* GAME OVER / VICTORY: if (input_space_edge.exchange(false)) {
RenderEndSpace ==
    /\ rpc = "end_space"
    /\ TakeEdge({"space"})
    /\ rpc' = IF input_edge["space"] THEN "end_reset" ELSE "end_esc"
    /\ UNCHANGED << envVars, inputVars, audioVars, sigHist, keyRegs, warnRegs, soundRegs,
                    currentState, running, player, g_player_mutex, trackVars, physVars, st,
                    nSelectedMap, snap, nSteer, timeHist >>

\* GAME OVER / VICTORY: currentState = MAP_SELECT
RenderEndSelect ==
    /\ rpc = "end_select"
    /\ RenderStore(MAP_SELECT)
    /\ rpc' = "end_esc"
    /\ UNCHANGED << envVars, inputVars, audioVars, sigHist, keyRegs, edgeRegs, warnRegs,
                    soundRegs, running, player, g_player_mutex, trackVars, physVars, st,
                    nSelectedMap, snap, nSteer, edgeHist, timeHist >>

\* GAME OVER / VICTORY: if (input_escape.exchange(false)) currentState = SYSTEM_HALT
RenderEndEscape ==
    /\ rpc = "end_esc"
    /\ TakeEscape
    /\ IF input_escape THEN RenderStore(SYSTEM_HALT)
                       ELSE UNCHANGED currentState
    /\ rpc' = "write"
    /\ UNCHANGED << envVars, inputVars, audioVars, sigHist, keyRegs, warnRegs, soundRegs,
                    running, player, g_player_mutex, trackVars, physVars, st, nSelectedMap,
                    snap, nSteer, timeHist >>

\* else if (st == SYSTEM_HALT) running = false
RenderHalt ==
    /\ rpc = "halt"
    /\ running' = FALSE
    /\ rpc' = "write"
    /\ UNCHANGED << envVars, inputVars, audioVars, sigHist, keyRegs, edgeRegs, warnRegs,
                    soundRegs, currentState, player, g_player_mutex, trackVars, physVars,
                    st, nSelectedMap, snap, nSteer, edgeHist, timeHist >>

\* { lock_guard lk(g_screen_mutex); WriteConsoleOutputCharacterW(...);
\* WriteConsoleOutputAttribute(...); } and the Sleep that ends the frame: the
\* whole scope is one step, and no other thread takes g_screen_mutex
RenderWrite ==
    /\ rpc = "write"
    /\ rpc' = "loop"
    /\ UNCHANGED << envVars, inputVars, audioVars, sigHist, keyRegs, edgeRegs, warnRegs,
                    soundRegs, currentState, running, player, g_player_mutex, trackVars,
                    physVars, st, nSelectedMap, snap, nSteer, edgeHist, timeHist >>

RenderThreadProc ==
    \/ RenderLoop \/ RenderBootSpace \/ RenderBootEscape \/ RenderSelect
    \/ RenderSelSpace \/ LoadMapClear \/ LoadMapBuild \/ LoadMapPoints
    \/ LoadMapZero \/ LoadMapSum
    \/ RenderReset \/ RenderSetRunning \/ RenderSelEscape
    \/ RenderSnap1 \/ RenderSnap2 \/ RenderReadSteer
    \/ DrawTrackView \/ RenderEndSpace \/ RenderEndSelect \/ RenderEndEscape
    \/ RenderHalt \/ RenderWrite

\* ------------------------------------------------------------ sound thread
\* The device side of the thread (files, fades, beeps, the bgm/engine/brake
\* playing flags and sound_brake, which only this thread touches) is left out;
\* what it does to the kernel's state is kept.

\* an exchange that leaves the signal as it found it
SignalKeep(was) == was
\* a store of true in place of the exchange
SignalRaise(was) == TRUE
\* signal.exchange(false): the value the exchange leaves in the signal
SignalExchange(was) == FALSE

\* while (running.load()) { GameState state = currentState.load();
SoundLoop ==
    /\ spc = "loop"
    /\ IF ~running
       THEN spc' = "done" /\ UNCHANGED state
       ELSE /\ state' = currentState
            /\ spc' = IF currentState = KERNEL_RUNNING THEN "engine" ELSE "crash"
    /\ UNCHANGED << envVars, inputVars, keyRegs, edgeRegs, warnRegs, soundRegs,
                    currentState, running, player, g_player_mutex, trackVars, physVars,
                    renderVars, edgeHist, timeHist, sigHist >>

\* { lock_guard lk(g_player_mutex); currentSpeed = player.fSpeed; } and the loads
\* of input_accel and input_steer that drive the engine and brake sounds
SoundEngine ==
    /\ spc = "engine"
    /\ Locked("sound")
    /\ spc' = "crash"
    /\ UNCHANGED << envVars, inputVars, keyRegs, edgeRegs, warnRegs, soundRegs,
                    currentState, running, player, trackVars, physVars, renderVars, state,
                    edgeHist, timeHist, sigHist >>

\* if (sound_crash.exchange(false)) ...
SoundCrash ==
    /\ spc = "crash"
    /\ sound_crash' = SignalExchange(sound_crash)
    /\ taken' = [taken EXCEPT !["crash"] = @ + (IF sound_crash THEN 1 ELSE 0)]
    /\ unheard' = [unheard EXCEPT !["crash"] = 0]
    /\ spc' = "gameover"
    /\ UNCHANGED << envVars, inputVars, keyRegs, edgeRegs, warnRegs, sound_gameover,
                    sound_win, currentState, running, player, g_player_mutex, trackVars,
                    physVars, renderVars, state, edgeHist, timeHist, ran, raised,
                    runRaised >>

\* if (sound_gameover.exchange(false)) ...
SoundGameOver ==
    /\ spc = "gameover"
    /\ sound_gameover' = SignalExchange(sound_gameover)
    /\ taken' = [taken EXCEPT !["gameover"] = @ + (IF sound_gameover THEN 1 ELSE 0)]
    /\ unheard' = [unheard EXCEPT !["gameover"] = 0]
    /\ spc' = "win"
    /\ UNCHANGED << envVars, inputVars, keyRegs, edgeRegs, warnRegs, sound_crash, sound_win,
                    currentState, running, player, g_player_mutex, trackVars, physVars,
                    renderVars, state, edgeHist, timeHist, ran, raised, runRaised >>

\* if (sound_win.exchange(false)) ... ; Sleep(50)
SoundWin ==
    /\ spc = "win"
    /\ sound_win' = SignalExchange(sound_win)
    /\ taken' = [taken EXCEPT !["win"] = @ + (IF sound_win THEN 1 ELSE 0)]
    /\ unheard' = [unheard EXCEPT !["win"] = 0]
    /\ spc' = "loop"
    /\ UNCHANGED << envVars, inputVars, keyRegs, edgeRegs, warnRegs, sound_crash,
                    sound_gameover, currentState, running, player, g_player_mutex,
                    trackVars, physVars, renderVars, state, edgeHist, timeHist, ran, raised,
                    runRaised >>

SoundThreadProc ==
    \/ SoundLoop \/ SoundEngine \/ SoundCrash \/ SoundGameOver \/ SoundWin

\* ------------------------------------------------------- the specifications
Next == InputThreadProc \/ PhysicsThreadProc \/ RenderThreadProc

\* a race on map 2: start, pick the map, go, accelerate, steer right, quit,
\* acknowledge
RaceScript == << "SPACE", "SPACE", "2", "SPACE", "W", "RIGHT", "SPACE", "ESC", "SPACE" >>
\* a tour of the menus: every selection key, Up twice, then Escape
TourScript == << "SPACE", "UP", "DOWN", "3", "1", "UP", "UP", "ESC" >>
\* start and back out at once, then start again
RestartScript == << "SPACE", "SPACE", "SPACE", "ESC", "SPACE", "SPACE", "SPACE", "SPACE" >>
\* a race on map 3, steering left, acknowledged at its end
CrashScript == << "SPACE", "SPACE", "3", "SPACE", "W", "LEFT", "SPACE", "SPACE" >>
Scripts == {RaceScript, TourScript, RestartScript, CrashScript}

Init == \E s \in Scripts : InitWith(s, FALSE)
Spec == Init /\ [][Next]_vars

\* the same behaviours with the clock of the physics loop recorded
InitClock == \E s \in Scripts : InitWith(s, TRUE)
SpecClock == InitClock /\ [][Next]_vars

\* a race on map 2 with the accelerator held, left by Space and Escape in one
\* frame of MAP SELECT, then a race on map 1
ReloadScript == << "SPACE", "SPACE", "2", "W", "SPACE", "ESC", "SPACE", "SPACE", "1",
                   "SPACE", "SPACE" >>
\* a race on map 1 with the brake held from the start line, for as long as the
\* recorded clock runs
BrakeScript == << "SPACE", "SPACE", "SPACE", "S" >>
InitDrive ==
    \/ \E s \in Scripts \cup {ReloadScript} : InitWith(s, FALSE)
    \/ InitWith(BrakeScript, TRUE)
SpecDrive == InitDrive /\ [][Next]_vars

\* two races on map 1 with the accelerator held, the first acknowledged at its
\* end
TwoRaceScript == << "SPACE", "W", "SPACE", "SPACE", "SPACE", "SPACE", "SPACE", "SPACE" >>

\* the kernel with the sound thread: a race on map 2 with the accelerator held,
\* acknowledged at its end, then Escape
AudioScript == << "SPACE", "SPACE", "2", "SPACE", "W", "SPACE", "SPACE", "ESC" >>
InitAudio == InitWith(AudioScript, FALSE)
NextAudio == Next \/ SoundThreadProc
SpecAudio == InitAudio /\ [][NextAudio]_vars
\* the same with the two races as well
InitSignals == \E s \in {AudioScript, TwoRaceScript} : InitWith(s, FALSE)
SpecSignals == InitSignals /\ [][NextAudio]_vars

\* the five fields of the render loop's snapshot, read from PCB p
SnapshotOf(p) ==
    [pX |-> p.fX_Register, pSpeed |-> p.fSpeed, pDist |-> p.fDistance,
     pCrashed |-> p.bCrashed, pCurv |-> p.fCurvature]

\* the contracts of the checks, the step, the reset and LoadMap, from chosen
\* states: the physics loop one fixed step into its run, and the render loop
\* either idle, at LoadMap of its MAP SELECT handler, or at the reset of its
\* GAME OVER / VICTORY screen
CasePCB(x, s, d, c, h) ==
    [fX_Register |-> x, fSpeed |-> s, fDistance |-> d, fCurvature |-> h,
     fPlayerCurvature |-> h, fHeadingAngle |-> h, bCrashed |-> c,
     nSteerState |-> IF h = 0 THEN 0 ELSE 1]
ContractCase(p, gs, map, sel, accel, brake, at) ==
    [p |-> p, gs |-> gs, map |-> map, sel |-> sel, accel |-> accel, brake |-> brake,
     at |-> at]

\* the lateral offset at which the vehicle's right side is on the road limit
EdgeX == ROAD_WIDTH_LIMIT * Q - HalfWidth
\* vehicles at, just inside and just beyond both road limits
BoundaryCases ==
    {ContractCase(CasePCB(x, 0, 0, c, 0), gs, 1, 1, FALSE, FALSE, "loop") :
        x \in {-EdgeX - 1, -EdgeX, 1 - EdgeX, 0, EdgeX - 1, EdgeX, EdgeX + 1},
        c \in BOOLEAN, gs \in {KERNEL_RUNNING, GAME_WIN}}

\* the obstacle of map 3 that spans [-0.25, 0.25], 40 into the fourth segment
MidObstacle == BuildTrackData(3)[4].vecObstacles[1]
MidObstacleAt == BuildTrackData(3)[1].fDistance + BuildTrackData(3)[2].fDistance
                     + BuildTrackData(3)[3].fDistance + MidObstacle.fSegDistance
\* vehicles around that obstacle: 0.5 before and behind it and one unit further,
\* overlapping it, beside it, and touching its right side
ObstacleCases ==
    {ContractCase(CasePCB(x, 0, d, c, 0), gs, 3, 3, FALSE, FALSE, "loop") :
        x \in {Q \div 100, Q \div 2,
               MidObstacle.fOffsetX + MidObstacle.fWidth \div 2 + HalfWidth,
               MidObstacle.fOffsetX + MidObstacle.fWidth \div 2 + HalfWidth - 1},
        d \in {MidObstacleAt - Q \div 2 - 1, MidObstacleAt - Q \div 2, MidObstacleAt,
               MidObstacleAt + Q \div 2, MidObstacleAt + Q \div 2 + 1},
        c \in BOOLEAN, gs \in {KERNEL_RUNNING, GAME_OVER}}

\* speeds at and between the bounds of the clamp, with every pair of pedals
ClampCases ==
    {ContractCase(CasePCB(0, v, 0, FALSE, 0), KERNEL_RUNNING, 1, 1, accel, brake, "loop") :
        v \in {-(MIN_SPEED * Q), -Q, 0, (MAX_SPEED - 5) * Q, MAX_SPEED * Q},
        accel \in BOOLEAN, brake \in BOOLEAN}

\* LoadMap about to run, over each map loaded before (0: none yet)
LoadCases ==
    {ContractCase(PlayerPCB, MAP_SELECT, map, sel, FALSE, FALSE, "load_clear") :
        map \in 0..3, sel \in 1..3}

\* the end screen about to reset the PCB of a finished or a crashed vehicle
ResetCases ==
    {ContractCase(CasePCB(Q \div 2, 0, 300 * Q, TRUE, 7), GAME_OVER, 3, 3, TRUE, FALSE,
                  "end_reset"),
     ContractCase(CasePCB(-(Q \div 4), 20 * Q, SumLength(BuildTrackData(2)), FALSE, -3),
                  GAME_WIN, 2, 2, FALSE, TRUE, "end_reset")}

\* vehicles at rest on each map at the start line, one unit before, on and one
\* unit after every segment boundary, and on the finish line
BoundaryDistances(t) ==
    {d \in {LengthUpTo(t, n) + k : n \in 0..Len(t), k \in {-1, 0, 1}} :
        0 <= d /\ d <= SumLength(t)}
SegmentCases ==
    UNION {{ContractCase(CasePCB(0, 0, d, FALSE, 0), KERNEL_RUNNING, map, map, FALSE,
                         FALSE, "loop") : d \in BoundaryDistances(BuildTrackData(map))} :
              map \in 1..3}

ContractCases ==
    BoundaryCases \cup ObstacleCases \cup ClampCases \cup LoadCases \cup ResetCases
        \cup SegmentCases

InitContract ==
    \E c \in ContractCases :
        /\ script = << >> /\ events = 0 /\ keysDown = {} /\ repeats = 0
        /\ timed = TRUE /\ metered = FALSE
        /\ ipc = "loop" /\ last = [f \in EdgeFlags |-> FALSE]
        /\ input_steer = c.p.nSteerState /\ input_accel = c.accel
        /\ input_brake = c.brake
        /\ input_escape = FALSE /\ input_edge = [f \in EdgeFlags |-> FALSE]
        /\ warnObstacle = FALSE /\ warnObstacleDist = 0 /\ warnObstacleOffsetX = 0
        /\ sound_crash = FALSE /\ sound_gameover = FALSE /\ sound_win = FALSE
        /\ currentState = c.gs /\ running = TRUE
        /\ player = c.p /\ g_player_mutex = "free"
        /\ g_currentMapId = Max(1, c.map)
        /\ vecTrack = BuildTrackData(c.map)
        /\ vecMapPointsCurrent = GenerateMapPoints(BuildTrackData(c.map))
        /\ fTotalTrackLength = SumLength(BuildTrackData(c.map))
        /\ ppc = "enforce" /\ accumulator = DT /\ found = [dist |-> 0, off |-> 0]
        /\ rpc = c.at /\ st = c.gs /\ nSelectedMap = c.sel
        /\ snap = SnapshotOf(c.p)
        /\ nSteer = c.p.nSteerState
        /\ spc = "loop" /\ state = c.gs
        /\ det = [f \in Flags |-> 0] /\ obs = [f \in Flags |-> 0]
        /\ fresh = [f \in Flags |-> 0] /\ edges = [f \in Flags |-> 0]
        /\ elapsedTotal = DT /\ stepsDone = 0 /\ probed = FALSE
        /\ runAt = 0 /\ runSteps = 0
        /\ ran = (c.gs = KERNEL_RUNNING) /\ raised = [s \in Signals |-> 0]
        /\ runRaised = [s \in Signals |-> 0] /\ taken = [s \in Signals |-> 0]
        /\ unheard = [s \in Signals |-> 0]
NextContract ==
    \/ PhysicsThreadProc
    \/ LoadMapClear \/ LoadMapBuild \/ LoadMapPoints \/ LoadMapZero \/ LoadMapSum
    \/ RenderReset
SpecContract == InitContract /\ [][NextContract]_vars

\* ------------------------------------------------------------------ claims
Pending(f) == IF f = "escape" THEN input_escape ELSE input_edge[f]
PendingCount(f) == IF Pending(f) THEN 1 ELSE 0
PhysicsStep == ppc' # ppc
RenderStep == rpc' # rpc

\* C1: for every one-shot flag (space, up, down, 1, 2, 3, escape), a key that has
\* made a single rising edge is observed true by exactly one exchange of the
\* render loop: the edge stays pending in the flag until an exchange observes
\* it, and no second exchange observes true.
C1_EdgeObservedExactlyOnce ==
    \A f \in Flags : edges[f] = 1 => /\ obs[f] <= 1
                                     /\ obs[f] = 0 => Pending(f)

\* C2 as stated: the number of exchanges that observed true equals the number of
\* rising edges the input loop detected (counting the one still pending in the
\* flag): no detection is lost or merged with another.
C2_EveryDetectionObserved ==
    \A f \in Flags : obs[f] + PendingCount(f) = det[f]

\* C2 amended: a flag is set exactly when the input loop has detected an edge
\* since the consumer's last exchange; the consumer never observes more edges
\* than were detected, and detections are never all lost: the detections made
\* between two exchanges are delivered together as one observation.
C2_DetectionsObservedOrMerged ==
    \A f \in Flags :
        /\ Pending(f) <=> fresh[f] > 0
        /\ obs[f] + PendingCount(f) <= det[f]
        /\ det[f] > 0 => obs[f] + PendingCount(f) > 0

\* C2 witness: two detections of one key were delivered as one observation
C2_TwoDetectionsOneObservation ==
    \E f \in Flags : det[f] = 2 /\ obs[f] = 1 /\ ~Pending(f)

\* C3: the step that completes a snapshot leaves in it the five fields as the
\* PCB holds them at that instant, the render thread holding the lock (so no
\* other thread is inside a PCB critical section): the snapshot never mixes
\* fields from before and after a physics step or a reset.
C3_SnapshotTearingFree ==
    [][rpc = "snap2" /\ rpc' = "steer"
          => g_player_mutex = "render" /\ snap' = SnapshotOf(player)]_vars

\* C3 witness: a snapshot of a moving vehicle has been completed during a race
C3_SnapshotOfMovingVehicle ==
    rpc = "steer" /\ st = KERNEL_RUNNING /\ snap.pSpeed > 0 /\ snap.pDist > 0

\* C4: every read and every write of a PCB field happens while the accessing
\* thread holds g_player_mutex: a thread about to read or write the PCB holds
\* the mutex.
C4_PcbAccessUnderLock ==
    /\ ppc = "body" => g_player_mutex = "physics"
    /\ (ppc = "warn" /\ currentState = KERNEL_RUNNING) => g_player_mutex = "physics"
    /\ rpc = "snap2" => g_player_mutex = "render"
    /\ rpc = "steer" => g_player_mutex = "render"

\* C5: after every pass of the physics outer loop, the loop has executed exactly
\* floor(T/dt) fixed steps for the elapsed time T measured so far, however T was
\* split across the passes, and the accumulator holds T mod dt.
C5_AccumulatorCorrect ==
    ppc = "loop" =>
        /\ stepsDone = elapsedTotal \div DT
        /\ accumulator = elapsedTotal % DT
        /\ 0 <= accumulator /\ accumulator < DT

\* C5 witness: several passes have measured a time that is no multiple of dt, two
\* or more steps have run and a residue is left
C5_StepsAndResidue ==
    ppc = "loop" /\ timed /\ stepsDone >= 2 /\ accumulator > 0

\* C6: once Game State is Win it stays Win under every action of the physics
\* thread; it changes only by a step of the render loop.
C6_WinStable ==
    [][currentState = GAME_WIN /\ currentState' # GAME_WIN => RenderStep]_vars

\* C7: once Game State holds Halt, no thread writes a different value to it.
C7_HaltTerminal ==
    [][currentState = SYSTEM_HALT => currentState' = SYSTEM_HALT]_vars

\* C8: every change of Game State is BootMenu to MapSelect, MapSelect to Running,
\* Running to Win, Running to Over, Win or Over to MapSelect, or a menu-like
\* state (BootMenu, MapSelect, Win, Over) to Halt.
C8_OnlySpecifiedTransitions ==
    [][currentState' # currentState =>
          << currentState, currentState' >> \in
              {<< BOOT_MENU, MAP_SELECT >>, << MAP_SELECT, KERNEL_RUNNING >>,
               << KERNEL_RUNNING, GAME_WIN >>, << KERNEL_RUNNING, GAME_OVER >>,
               << GAME_WIN, MAP_SELECT >>, << GAME_OVER, MAP_SELECT >>,
               << BOOT_MENU, SYSTEM_HALT >>, << MAP_SELECT, SYSTEM_HALT >>,
               << GAME_WIN, SYSTEM_HALT >>, << GAME_OVER, SYSTEM_HALT >>}]_vars

\* C9: whenever Game State holds Running and is overwritten by another value, the
\* writer is the physics thread; the render thread never overwrites Running.
C9_OnlyPhysicsLeavesRunning ==
    [][currentState = KERNEL_RUNNING /\ currentState' # KERNEL_RUNNING
          => PhysicsStep]_vars

\* C10: every write of Running to Game State is made from MapSelect, by the
\* render loop's MAP SELECT handler after LoadMap and the PCB reset: at that
\* write every PCB field holds its default and the track, its total length and
\* the map id are those of the selected map.
C10_RunningEnteredFresh ==
    [][rpc = "sel_run" /\ rpc' # rpc =>
          /\ currentState = MAP_SELECT
          /\ st = MAP_SELECT
          /\ player' = PlayerPCB
          /\ g_currentMapId' = nSelectedMap
          /\ vecTrack' = BuildTrackData(nSelectedMap)
          /\ fTotalTrackLength' = SumLength(BuildTrackData(nSelectedMap))]_vars

SoundStep == spc' # spc
\* the effect of a crash on the PCB, Game State and the signals
CrashEffect ==
    /\ player' = [player EXCEPT !.bCrashed = TRUE, !.fSpeed = 0]
    /\ currentState' = GAME_OVER
    /\ sound_crash' /\ sound_gameover'
    /\ UNCHANGED sound_win
NoEffect == UNCHANGED << player, currentState, sound_crash, sound_gameover, sound_win >>

\* C11: a run of the boundary check on a vehicle that is not crashed crashes it
\* exactly when x + halfWidth >= roadLimit or x - halfWidth <= -roadLimit; the
\* crash sets crashed, zeroes the speed, sets Game State to Over and raises the
\* crash and the game-over signal; in the other case nothing changes.
C11_BoundaryCrash ==
    [][ppc = "enforce" /\ ppc' # ppc /\ ~player.bCrashed =>
          IF \/ player.fX_Register + HalfWidth >= ROAD_WIDTH_LIMIT * Q
             \/ player.fX_Register - HalfWidth <= -(ROAD_WIDTH_LIMIT * Q)
          THEN CrashEffect ELSE NoEffect]_vars

\* C11 witness: the check has crashed a vehicle whose right side was exactly on
\* the road limit
C11_CrashedOnTheLimit ==
    /\ ppc = "collide" /\ player.bCrashed /\ player.fX_Register = EdgeX
    /\ currentState = GAME_OVER /\ sound_crash /\ sound_gameover

\* the obstacles of the segment the vehicle is in that lie within 0.5 of its
\* offset in the segment and whose open interval meets the vehicle's
ObstaclesMet ==
    LET sc == Scan(vecTrack, 0, player.fDistance, 0)
    IN  IF sc.section >= Len(vecTrack) THEN {}
        ELSE {i \in 1..Len(vecTrack[sc.section + 1].vecObstacles) :
                LET o == vecTrack[sc.section + 1].vecObstacles[i]
                IN  /\ sc.pos - o.fSegDistance <= Q \div 2
                    /\ o.fSegDistance - sc.pos <= Q \div 2
                    /\ player.fX_Register - HalfWidth < o.fOffsetX + o.fWidth \div 2
                    /\ o.fOffsetX - o.fWidth \div 2 < player.fX_Register + HalfWidth}

\* C12: a run of the obstacle check crashes the vehicle exactly when crashed is
\* false, Game State is Running and some obstacle of the active segment lies
\* within 0.5 of the vehicle's offset in the segment with its open interval
\* overlapping the vehicle's (touching intervals do not collide); in every other
\* case the check changes nothing.
C12_ObstacleCollision ==
    [][ppc = "collide" /\ ppc' # ppc =>
          IF ~player.bCrashed /\ currentState = KERNEL_RUNNING /\ ObstaclesMet # {}
          THEN CrashEffect ELSE NoEffect]_vars

\* C12 witness: the check has crashed a vehicle at x = 0.01 on the obstacle that
\* spans [-0.25, 0.25], at the far end of the 0.5 window
C12_CrashedOnMidObstacle ==
    /\ ppc = "warn" /\ player.bCrashed /\ sound_crash /\ currentState = GAME_OVER
    /\ player.fX_Register = Q \div 100
    /\ player.fDistance = MidObstacleAt + Q \div 2

\* C13: the step that sets crashed also leaves the speed 0, and while crashed
\* stays true no step changes the speed from 0 or changes the lateral offset,
\* the distance, the heading, the smoothed curvature or playerCurvature,
\* whatever keys are held.
C13_CrashedFrozen ==
    [][/\ (~player.bCrashed /\ player'.bCrashed) => player'.fSpeed = 0
       /\ (player.bCrashed /\ player'.bCrashed) =>
              /\ player.fSpeed = 0 /\ player'.fSpeed = 0
              /\ player'.fX_Register = player.fX_Register
              /\ player'.fDistance = player.fDistance
              /\ player'.fHeadingAngle = player.fHeadingAngle
              /\ player'.fCurvature = player.fCurvature
              /\ player'.fPlayerCurvature = player.fPlayerCurvature]_vars

\* C13 witness: a vehicle that crashed while moving is still crashed after three
\* fixed steps, with the accelerator held
C13_CrashedThroughSteps ==
    /\ player.bCrashed /\ player.fDistance > 0 /\ stepsDone >= 3
    /\ input_accel /\ ppc = "loop"

\* C14: the reset leaves every field of the PCB at its default, whatever it held:
\* lateral offset, speed, distance, curvature, playerCurvature and heading 0,
\* crashed false, steer state 0.
C14_ResetComplete ==
    [][(rpc = "sel_reset" \/ rpc = "end_reset") /\ rpc' # rpc =>
          /\ player'.fX_Register = 0 /\ player'.fSpeed = 0 /\ player'.fDistance = 0
          /\ player'.fCurvature = 0 /\ player'.fPlayerCurvature = 0
          /\ player'.fHeadingAngle = 0 /\ ~player'.bCrashed
          /\ player'.nSteerState = 0]_vars

\* C14 witness: the end screen has reset a PCB of which its snapshot shows a
\* crashed vehicle off the centre line, well into the track
C14_ResetOfCrashedVehicle ==
    /\ rpc = "end_select" /\ player = PlayerPCB
    /\ snap.pCrashed /\ snap.pX # 0 /\ snap.pDist > 0 /\ snap.pCurv # 0

\* C15: for each map id the build leaves in the track vector the segment table
\* of that id (curvatures, lengths, obstacles in order) whatever the vector held
\* before, and the polyline generated next is the one of that table: two builds
\* of one id give equal tracks and equal polylines.
C15_TrackDeterminism ==
    [][/\ (rpc = "load_build" /\ rpc' # rpc) =>
              vecTrack' = BuildTrackData(g_currentMapId)
       /\ (rpc = "load_points" /\ rpc' # rpc) =>
              vecMapPointsCurrent' = GenerateMapPoints(BuildTrackData(g_currentMapId))]_vars

\* C15 witness: map 2 has been built into the vector that held map 3 (whose
\* total length is still in place)
C15_BuiltOverAnotherMap ==
    /\ rpc = "load_points" /\ g_currentMapId = 2 /\ vecTrack = BuildTrackData(2)
    /\ fTotalTrackLength = SumLength(BuildTrackData(3))

\* C16: when LoadMap(id) has returned, the active track is the table of id, the
\* polyline is the one generated from it, and the total length is the sum of
\* the segment lengths: 1000, 1450 and 1630 for maps 1, 2 and 3.
C16_LoadMapResult ==
    rpc = "sel_reset" =>
        /\ g_currentMapId = nSelectedMap
        /\ vecTrack = BuildTrackData(nSelectedMap)
        /\ vecMapPointsCurrent = GenerateMapPoints(vecTrack)
        /\ fTotalTrackLength = LengthUpTo(vecTrack, Len(vecTrack))
        /\ fTotalTrackLength = CASE nSelectedMap = 1 -> 1000 * Q
                                 [] nSelectedMap = 2 -> 1450 * Q
                                 [] nSelectedMap = 3 -> 1630 * Q

\* C16 witness: LoadMap(3) has returned with a total of 1630 and a polyline of
\* 1630 points
C16_Map3Loaded ==
    /\ rpc = "sel_reset" /\ g_currentMapId = 3 /\ fTotalTrackLength = 1630 * Q
    /\ Len(vecMapPointsCurrent) = 1630

\* C17: the speed the fixed step leaves after its clamp is a fixed point of the
\* clamp: c(c(s)) = c(s) for the unclamped speed s of the step.
C17_ClampIdempotent ==
    [][ppc = "body" /\ ppc' # ppc => ClampSpeed(player'.fSpeed) = player'.fSpeed]_vars

\* C17 witness: a step has cut a speed above MAX_SPEED (accelerating from
\* MAX_SPEED - 5) down to MAX_SPEED
C17_ClampedAtMax ==
    /\ ppc = "enforce" /\ stepsDone = 1 /\ input_accel /\ ~input_brake
    /\ player.fSpeed = MAX_SPEED * Q /\ player.fDistance = MAX_SPEED * Q * DtSeconds

\* C18: no step of the sound thread changes the PCB, Game State, the run flag,
\* the track, its polyline or total length, the input registers, the edge
\* flags or the warning registers; of the crash, game-over and win signals it
\* changes none from false to true.
C18_SoundLeavesCore ==
    [][SoundStep =>
          /\ UNCHANGED << player, currentState, running, trackVars, keyRegs, edgeRegs,
                          warnRegs >>
          /\ sound_crash' => sound_crash
          /\ sound_gameover' => sound_gameover
          /\ sound_win' => sound_win]_vars

\* C18 witness: the race is won and the sound thread has test-and-cleared the
\* win signal the winning step raised
C18_WinSignalTaken ==
    /\ spc = "loop" /\ state = GAME_WIN /\ currentState = GAME_WIN /\ ~sound_win
    /\ player.fDistance = fTotalTrackLength

\* C19: no thread holds the PCB lock between a fixed step's update of the
\* lateral offset and the boundary check that follows it: whoever holds the
\* lock, other than the physics thread, never finds the lateral offset beyond
\* a road limit with crashed false.
C19_ChecksInStepSection ==
    g_player_mutex = "render" => ~(OffRoad(player) /\ ~player.bCrashed)

\* C20: every change of Game State made by the physics thread replaces the value
\* Running; the physics thread never overwrites BootMenu, MapSelect, Win, Over
\* or Halt.
C20_PhysicsOverwritesOnlyRunning ==
    [][PhysicsStep /\ currentState' # currentState
          => currentState = KERNEL_RUNNING]_vars

\* C21: whenever the PCB lock is free the speed lies between -15 and MAX_SPEED,
\* whatever pedals are held, both at once included.
C21_SpeedBound ==
    g_player_mutex = "free" =>
        /\ -(MIN_SPEED * Q) <= player.fSpeed
        /\ player.fSpeed <= MAX_SPEED * Q

\* C21 witness: a fixed step run with accelerator and brake both held has just
\* released the lock with the speed clamped to the lower bound
C21_BothPedalsClamped ==
    /\ ppc = "enforce" /\ stepsDone >= 1 /\ g_player_mutex = "free"
    /\ input_accel /\ input_brake /\ currentState = KERNEL_RUNNING
    /\ player.fSpeed = -(MIN_SPEED * Q)

\* LoadMap has returned at least once and is not in progress
MapLoaded ==
    /\ vecTrack # << >>
    /\ rpc \notin {"load_build", "load_points", "load_zero", "load_sum"}

\* C22: whenever the PCB lock is free and a map is loaded, the distance travelled
\* does not exceed the total track length (the finish handling of the fixed
\* step caps it there).
C22_DistanceWithinTotal ==
    (g_player_mutex = "free" /\ MapLoaded) => player.fDistance <= fTotalTrackLength

\* C23: the distance travelled is never negative.
C23_DistanceNonNegative == player.fDistance >= 0

\* C24: for a distance d with 0 <= d < total, the scan of the fixed step and the
\* scan of the obstacle check both return the unique segment index s and offset
\* p with p = d - (lengths of the segments before s) and 0 <= p < length(s);
\* for d = total they return index = number of segments, the target curvature
\* is 0 and no obstacle is checked; both scans return the same (s, p).
C24_SegmentLookup ==
    LET d == player.fDistance
        t == vecTrack
        a == StepScan(t, 0, d)
        b == Scan(t, 0, d, 0)
        At(s, p) == /\ s \in 0..(Len(t) - 1)
                    /\ p = d - LengthUpTo(t, s)
                    /\ 0 <= p /\ p < t[s + 1].fDistance
    IN  (MapLoaded /\ fTotalTrackLength = LengthUpTo(t, Len(t))) =>
            /\ a.section = b.section /\ a.pos = b.pos
            /\ b.start = d - b.pos
            /\ (0 <= d /\ d < fTotalTrackLength) =>
                   /\ At(a.section, a.pos)
                   /\ \A s \in 0..(Len(t) - 1) : At(s, d - LengthUpTo(t, s)) => s = a.section
            /\ d = fTotalTrackLength =>
                   /\ a.section = Len(t) /\ a.pos = 0
                   /\ TargetCurv(t, d) = 0
                   /\ \A x \in {-(ROAD_WIDTH_LIMIT * Q), 0, Q \div 2, ROAD_WIDTH_LIMIT * Q} :
                          ~Collides([player EXCEPT !.fX_Register = x], t)

\* C24 witness: a vehicle standing exactly on the boundary between the third and
\* the fourth segment of map 3 has been through a fixed step and the obstacle
\* check, and both scans place it at offset 0 of the fourth segment
C24_OnSegmentBoundary ==
    /\ stepsDone >= 2 /\ ppc = "warn" /\ currentState = KERNEL_RUNNING
    /\ g_currentMapId = 3 /\ vecTrack = BuildTrackData(3)
    /\ player.fDistance = LengthUpTo(vecTrack, 3)
    /\ StepScan(vecTrack, 0, player.fDistance) = [section |-> 3, pos |-> 0]
    /\ Scan(vecTrack, 0, player.fDistance, 0).section = 3

\* the obstacles of track t that lie strictly ahead of distance d by at most
\* WARNING_RANGE, each with its global distance and lateral offset
AheadWithin(t, d) ==
    {o \in UNION {{[dist |-> LengthUpTo(t, s - 1) + t[s].vecObstacles[i].fSegDistance,
                    off |-> t[s].vecObstacles[i].fOffsetX] :
                       i \in 1..Len(t[s].vecObstacles)} : s \in 1..Len(t)} :
        o.dist > d /\ o.dist - d <= WARNING_RANGE * Q}
\* the nearest of a non-empty set of obstacles
NearestOf(A) == CHOOSE o \in A : \A n \in A : o.dist <= n.dist

\* C25: when a fixed step whose warning code found Game State Running ends,
\* warnObstacle is true exactly when some obstacle of the track lies strictly
\* ahead of the vehicle by at most 50, and the published distance and lateral
\* offset are those of the nearest such obstacle; when a step whose warning
\* code found any other Game State ends, warnObstacle is false.
C25_WarningMatchesTrack ==
    [][/\ (ppc = "warn" /\ ppc' \in {"loop", "step"}) =>
              /\ ~warnObstacle'
              /\ currentState = KERNEL_RUNNING =>
                     AheadWithin(vecTrack', player'.fDistance) = {}
       /\ (ppc = "warn_off" /\ ppc' \in {"loop", "step"}) =>
              /\ warnObstacle'
              /\ AheadWithin(vecTrack', player'.fDistance) # {}
              /\ LET o == NearestOf(AheadWithin(vecTrack', player'.fDistance))
                 IN  /\ warnObstacleDist' = o.dist - player'.fDistance
                     /\ warnObstacleOffsetX' = o.off]_vars

\* a step of the input thread: a step that moves none of the other three threads
InputStep == ~PhysicsStep /\ ~RenderStep /\ ~SoundStep

\* C26: steer, accel and brake are written only by the input thread; each edge
\* flag is set true only by the input thread and set false only by the render
\* thread; the warning registers are written only by the physics thread; the
\* crash, game-over and win signals are set true only by the physics thread and
\* set false only by the sound thread.
C26_SingleWriter ==
    [][/\ keyRegs' # keyRegs => InputStep
       /\ \A f \in EdgeFlags :
              /\ (input_edge'[f] /\ ~input_edge[f]) => InputStep
              /\ (~input_edge'[f] /\ input_edge[f]) => RenderStep
       /\ (input_escape' /\ ~input_escape) => InputStep
       /\ (~input_escape' /\ input_escape) => RenderStep
       /\ warnRegs' # warnRegs => PhysicsStep
       /\ \A sig \in {<< sound_crash, sound_crash' >>, << sound_gameover, sound_gameover' >>,
                      << sound_win, sound_win' >>} :
              /\ (sig[2] /\ ~sig[1]) => PhysicsStep
              /\ (~sig[2] /\ sig[1]) => SoundStep]_vars

\* C26 witness: every kind of register has been written and consumed: the
\* accelerator is held, Space and Escape have been taken by the render loop, the
\* physics loop has published a warning, and the sound loop has taken the win
\* signal
C26_AllRegistersUsed ==
    /\ input_accel /\ obs["space"] >= 2 /\ obs["escape"] >= 1
    /\ warnObstacleDist > 0 /\ raised["win"] >= 1 /\ taken["win"] >= 1

\* C27: a fixed step whose test of Game State found a value other than Running
\* changes no PCB field, does not change Game State and raises no crash,
\* game-over or win signal; its only effects are the false it stores in
\* warnObstacle and the decrement of the accumulator.
C27_IdleStepFrame ==
    [][(PhysicsStep /\ (ppc = "step" \/ ppc = "enforce" \/ ppc = "collide" \/ ppc = "warn")
           /\ ~ran' /\ (ppc # "step" => ~ran)) =>
          /\ UNCHANGED << player, currentState, soundRegs, trackVars, running,
                          warnObstacleDist, warnObstacleOffsetX, keyRegs, edgeRegs >>
          /\ IF ppc = "warn"
             THEN ~warnObstacle' /\ accumulator' = accumulator - DT
             ELSE UNCHANGED << warnObstacle, accumulator >>]_vars

\* C27 witness: a step that found Game State other than Running has passed both
\* checks and is about to clear a warning that a step of the abandoned race
\* left set
C27_IdleStepClearsWarning ==
    /\ ppc = "warn" /\ ~ran /\ warnObstacle /\ currentState # KERNEL_RUNNING
    /\ player.fDistance > 0 /\ ~player.bCrashed

\* C28: between two consecutive PCB resets the physics thread stores true in
\* the crash signal at most once, in the game-over signal at most once and in
\* the win signal at most once, and never in both the win signal and the crash
\* signal.
C28_SignalsOncePerRun ==
    /\ \A s \in Signals : runRaised[s] <= 1
    /\ ~(runRaised["win"] >= 1 /\ runRaised["crash"] >= 1)

\* the value of a signal
SignalSet(s) ==
    CASE s = "crash" -> sound_crash [] s = "gameover" -> sound_gameover [] s = "win" -> sound_win
SignalCount(s) == IF SignalSet(s) THEN 1 ELSE 0

\* C29 (as stated): every store of true to the crash, game-over or win signal by
\* the physics thread is observed as true by exactly one exchange of the sound
\* thread: each store is either still pending in the signal or has been
\* observed once.
C29_EveryRaiseObserved ==
    \A s \in Signals : raised[s] = taken[s] + SignalCount(s)

\* C29 (amended): a signal is true exactly when the physics thread has stored
\* true in it since the sound thread's last exchange of it; the sound thread
\* never observes true more often than true was stored, and no store is dropped
\* without an observation; but the stores made between two consecutive
\* exchanges are merged into one observation.
C29_RaisesObservedOrMerged ==
    \A s \in Signals :
        /\ SignalSet(s) <=> unheard[s] > 0
        /\ taken[s] + SignalCount(s) <= raised[s]
        /\ raised[s] > 0 => taken[s] + SignalCount(s) >= 1

\* C29 witness: two races were won, and the one exchange of the sound thread
\* that found the win signal true took both stores
C29_TwoRaisesOneObservation ==
    raised["win"] = 2 /\ taken["win"] = 1 /\ ~sound_win /\ spc = "loop"

\* the four threads under a fair scheduler: the input loop keeps sampling, and
\* each of the other loops keeps taking steps until it has returned (a
\* lock_guard always releases the mutex, so no loop waits for ever)
Fairness ==
    /\ WF_vars(InputThreadProc)
    /\ []<>(ppc = "done") \/ []<><<PhysicsThreadProc>>_ppc
    /\ []<>(rpc = "done") \/ []<><<RenderThreadProc>>_rpc
    /\ []<>(spc = "done") \/ []<><<SoundThreadProc>>_spc
\* the accelerator and the key 2 held from the start, three presses of Space
\* (menu, go, acknowledge), then Escape
ShutdownScript == << "W", "2", "SPACE", "SPACE", "SPACE", "SPACE", "SPACE", "ESC" >>
InitShutdown == InitWith(ShutdownScript, FALSE)
SpecShutdown == InitShutdown /\ [][NextAudio]_vars /\ Fairness

\* all four loops have left their loop and returned
AllReturned ==
    ~running /\ ipc = "done" /\ ppc = "done" /\ rpc = "done" /\ spc = "done"

\* C30: under fair scheduling, once Game State is Halt the render loop sets the
\* run flag to false and all four loops return.
C30_HaltLeadsToShutdown == (currentState = SYSTEM_HALT) ~> AllReturned

\* ------------------------------------------------------------------ locks
\* the positions at which a loop is about to construct a lock_guard on
\* g_player_mutex
PhysLockSites == {"step", "enforce", "collide"}
RenderLockSites == {"sel_reset", "end_reset", "snap1", "minimap"}
SoundLockSites == {"engine"}

\* a loop can take its next step: it has not returned, and if the step begins
\* with a lock_guard the mutex is free
CanStep(pc, sites) == pc # "done" /\ (pc \in sites => g_player_mutex = "free")

\* a fair scheduler and a fair mutex: the input loop keeps sampling, and a loop
\* whose next step is possible again and again takes it (nothing is assumed
\* about a loop whose lock request is refused from some point on)
LockFairness ==
    /\ WF_vars(InputThreadProc)
    /\ <>[]~CanStep(ppc, PhysLockSites) \/ []<><<PhysicsThreadProc>>_ppc
    /\ <>[]~CanStep(rpc, RenderLockSites) \/ []<><<RenderThreadProc>>_rpc
    /\ <>[]~CanStep(spc, SoundLockSites) \/ []<><<SoundThreadProc>>_spc
SpecLocks == InitShutdown /\ [][NextAudio]_vars /\ LockFairness

\* whoever holds g_player_mutex is at the one position inside a lock scope
\* that spans two steps, and its next step ends the scope: it requests no lock
\* there, and the console write under g_screen_mutex is not reached
HolderReleasesNext ==
    /\ g_player_mutex \in {"free", "physics", "render"}
    /\ g_player_mutex = "physics" => ppc = "body"
    /\ g_player_mutex = "render" => rpc = "snap2"
    /\ rpc = "write" => g_player_mutex # "render"

Rebuilding == rpc \in {"load_build", "load_points", "load_zero", "load_sum"}

\* the physics loop is inside a fixed step that found Running: between its
\* lock_guard and the end of the scope, where it reads the total length (979)
\* and scans the track (985-993)
StepReadsTrack == ppc = "body"

\* C32: LoadMap's clearing and refilling of the track and its recomputation of
\* the total length never overlap a fixed step of the physics loop that reads
\* the track or the total length.
C32_NoRebuildUnderReader == ~(Rebuilding /\ StepReadsTrack)

\* -------------------------------------------------------- the track tables
\* the obstacles of a segment are listed in increasing segOffset
ObstaclesAscend(os) ==
    \A i \in 1..(Len(os) - 1) : os[i].fSegDistance < os[i + 1].fSegDistance

\* every segment has a positive length, every obstacle lies inside its segment
\* with a lateral offset in [-1, 1] and a positive width
TrackWellFormed(t) ==
    \A i \in 1..Len(t) :
        /\ t[i].fDistance > 0
        /\ ObstaclesAscend(t[i].vecObstacles)
        /\ \A k \in 1..Len(t[i].vecObstacles) :
            LET o == t[i].vecObstacles[k]
            IN  /\ 0 <= o.fSegDistance /\ o.fSegDistance < t[i].fDistance
                /\ -Q <= o.fOffsetX /\ o.fOffsetX <= Q
                /\ o.fWidth > 0

\* C33: in each of the three predefined maps, and so in every track LoadMap
\* builds, every segment has length > 0 and every obstacle has
\* 0 <= segOffset < its segment's length, lateralOffset in [-1, 1] and
\* width > 0, the obstacles of a segment being listed in increasing segOffset.
C33_TrackDataWellFormed ==
    /\ \A id \in 1..3 : BuildTrackData(id) # << >> /\ TrackWellFormed(BuildTrackData(id))
    /\ TrackWellFormed(vecTrack)

\* C33 witness: BuildTrackData has just filled the track with map 3, whose
\* second segment carries two obstacles
C33_MapThreeBuilt ==
    /\ rpc = "load_points" /\ g_currentMapId = 3
    /\ Len(vecTrack) = 10 /\ Len(vecTrack[2].vecObstacles) = 2

\* --------------------------------------------- the fixed step at 1/PHYSICS_HZ
\* a first half of the step that advances by a whole second
StepSecond(p, steer, accel, brake, total) ==
    StepLongitudinal(p, steer, accel, brake, total, 1, 1)
\* the first half of the fixed step with dt = DELTA_T = 1 / PHYSICS_HZ
StepDeltaT(p, steer, accel, brake, total) ==
    StepLongitudinal(p, steer, accel, brake, total, 1, PHYSICS_HZ)

\* the obstacle a vehicle is sent at on each map (segment and obstacle counted
\* from 1): the first of map 2, beside the centre line, and the one of map 3
\* that lies on the centre line
Approached(map) == IF map = 2 THEN [seg |-> 5, obs |-> 1] ELSE [seg |-> 4, obs |-> 1]
\* the distance from the start line at which that obstacle stands
ApproachedAt(map) ==
    LET a == Approached(map)
        t == BuildTrackData(map)
    IN  LengthUpTo(t, a.seg - 1) + t[a.seg].vecObstacles[a.obs].fSegDistance
BandLo(map) == ApproachedAt(map) - Q \div 2
BandHi(map) == ApproachedAt(map) + Q \div 2

\* the furthest a vehicle starts before the band, in units of 1/Q
MaxLead == 25
\* speeds a vehicle starts with: at rest, crawling, cruising, just under and at
\* MAX_SPEED
LeadSpeeds == {0, 3 * Q, 10 * Q, 25 * Q, MAX_SPEED * Q - 10, MAX_SPEED * Q}

\* a vehicle in Running on map 2 or 3, on the centre line just before the band
\* of the obstacle it is sent at, with the pedals held as chosen
InitDeltaT ==
    \E map \in {2, 3}, lead \in 1..MaxLead, v \in LeadSpeeds, accel \in BOOLEAN,
       brake \in BOOLEAN :
        /\ script = << >> /\ events = 0 /\ keysDown = {} /\ repeats = 0
        /\ timed = FALSE /\ metered = FALSE
        /\ ipc = "loop" /\ last = [f \in EdgeFlags |-> FALSE]
        /\ input_steer = 0 /\ input_accel = accel /\ input_brake = brake
        /\ input_escape = FALSE /\ input_edge = [f \in EdgeFlags |-> FALSE]
        /\ warnObstacle = FALSE /\ warnObstacleDist = 0 /\ warnObstacleOffsetX = 0
        /\ sound_crash = FALSE /\ sound_gameover = FALSE /\ sound_win = FALSE
        /\ currentState = KERNEL_RUNNING /\ running = TRUE
        /\ player = CasePCB(0, v, BandLo(map) - lead, FALSE, 0)
        /\ g_player_mutex = "free"
        /\ g_currentMapId = map
        /\ vecTrack = BuildTrackData(map)
        /\ vecMapPointsCurrent = GenerateMapPoints(BuildTrackData(map))
        /\ fTotalTrackLength = SumLength(BuildTrackData(map))
        /\ ppc = "step" /\ accumulator = 0 /\ found = [dist |-> 0, off |-> 0]
        /\ rpc = "loop" /\ st = KERNEL_RUNNING /\ nSelectedMap = map
        /\ snap = SnapshotOf(PlayerPCB)
        /\ nSteer = 0
        /\ spc = "loop" /\ state = KERNEL_RUNNING
        /\ det = [f \in Flags |-> 0] /\ obs = [f \in Flags |-> 0]
        /\ fresh = [f \in Flags |-> 0] /\ edges = [f \in Flags |-> 0]
        /\ elapsedTotal = 0 /\ stepsDone = 0 /\ probed = FALSE
        /\ runAt = 0 /\ runSteps = 0
        /\ ran = FALSE /\ raised = [s \in Signals |-> 0]
        /\ runRaised = [s \in Signals |-> 0] /\ taken = [s \in Signals |-> 0]
        /\ unheard = [s \in Signals |-> 0]

\* one whole fixed step of the physics loop at dt = DELTA_T, run without
\* interruption: the step's scope (963-1009), EnforceBoundaryProtection and
\* CheckObstacleCollision; followed while the vehicle is within one unit of
\* the band
FixedStepDeltaT ==
    /\ currentState = KERNEL_RUNNING
    /\ player.fDistance >= BandLo(g_currentMapId) - Q
    /\ player.fDistance <= BandHi(g_currentMapId) + Q
    /\ LET r == StepDeltaT(player, input_steer, input_accel, input_brake,
                           fTotalTrackLength)
           p1 == StepLateral(r.p, vecTrack, 1, PHYSICS_HZ)
           off == OffRoad(p1) /\ ~p1.bCrashed
           p2 == IF off THEN [p1 EXCEPT !.bCrashed = TRUE, !.fSpeed = 0] ELSE p1
           checked == ~p2.bCrashed /\ ~r.win /\ ~off
           hit == checked /\ Collides(p2, vecTrack)
       IN  /\ player' = IF hit THEN [p2 EXCEPT !.bCrashed = TRUE, !.fSpeed = 0] ELSE p2
           /\ currentState' = IF off \/ hit THEN GAME_OVER
                              ELSE IF r.win THEN GAME_WIN ELSE currentState
           /\ sound_win' = (sound_win \/ r.win)
           /\ sound_crash' = (sound_crash \/ off \/ hit)
           /\ sound_gameover' = (sound_gameover \/ off \/ hit)
           /\ Raise((IF r.win THEN {"win"} ELSE {})
                        \cup (IF off \/ hit THEN {"crash", "gameover"} ELSE {}))
           /\ probed' = (probed \/ (checked /\ ReachesBand(p2, vecTrack)))
    /\ UNCHANGED << envVars, inputVars, audioVars, ran, taken, keyRegs, edgeRegs, warnRegs,
                    running, g_player_mutex, trackVars, physVars, renderVars, edgeHist,
                    elapsedTotal, stepsDone, runAt, runSteps >>
SpecDeltaT == InitDeltaT /\ [][FixedStepDeltaT]_vars

\* C34: a vehicle in Running that started before the band
\* [segOffset - 0.5, segOffset + 0.5] of an obstacle and is now beyond it had
\* its in-segment offset inside the band at the obstacle check of at least one
\* fixed step (one step advances distance by at most MAX_SPEED / PHYSICS_HZ,
\* less than the band's width of 1.0).
C34_NoTunnelling ==
    /\ (MAX_SPEED * Q) \div PHYSICS_HZ < Q
    /\ player.fDistance > BandHi(g_currentMapId) => probed

\* C34 witness: a vehicle at MAX_SPEED has passed the band of the obstacle of
\* map 2 without a crash and is still in Running
C34_PassedBand ==
    /\ g_currentMapId = 2 /\ currentState = KERNEL_RUNNING /\ ~player.bCrashed
    /\ player.fSpeed = MAX_SPEED * Q
    /\ player.fDistance > BandHi(2)

\* ------------------------------------------------------- the crashed flag
\* C35: in every state in which Game State is Running and the PCB lock is free,
\* crashed is false.
C35_RunningNotCrashed ==
    (currentState = KERNEL_RUNNING /\ g_player_mutex = "free") => ~player.bCrashed

\* C35 witness: a vehicle crashed earlier, the end screen was acknowledged,
\* and the next race is under way with the lock free
C35_RacingAfterCrash ==
    /\ raised["crash"] >= 1 /\ currentState = KERNEL_RUNNING
    /\ g_player_mutex = "free" /\ ppc = "collide" /\ ran

\* C36: in every state in which the PCB lock is free and crashed is true, speed
\* is 0.
C36_CrashedStopped == (g_player_mutex = "free" /\ player.bCrashed) => player.fSpeed = 0

\* C36 witness: a vehicle that was moving has crashed some way down the track,
\* the obstacle check of that step is over and the lock is free
C36_CrashedOnTrack ==
    /\ player.bCrashed /\ g_player_mutex = "free" /\ player.fDistance > 0
    /\ currentState = GAME_OVER /\ ppc = "warn"

\* ------------------------------------------------- edge flags across states
\* the positions of the render loop at which flag f is exchanged
TestSites(f) ==
    CASE f = "space" -> {"boot_space", "sel_space", "end_space"}
      [] f = "escape" -> {"boot_esc", "sel_esc", "end_esc"}
      [] OTHER -> {"sel_nav"}

\* what the exchange of a set flag f at the render loop's position does
TakesEffect(f) ==
    CASE f = "space" ->
            CASE rpc = "boot_space" -> currentState' = MAP_SELECT
              [] rpc = "sel_space" -> rpc' = "load_clear"
              [] OTHER -> rpc' = "end_reset"
      [] f = "escape" ->
            currentState' = (IF rpc = "sel_esc" THEN BOOT_MENU ELSE SYSTEM_HALT)
      [] OTHER ->
            \/ \E g \in {"up", "down", "1", "2", "3"} \ {f} : input_edge[g]
            \/ nSelectedMap' = Select(f, TRUE, nSelectedMap)

\* C37: a set edge flag is cleared only by the render loop at a position that
\* tests it, whatever Game State does in between, and the test that finds it
\* set acts on it (Space on the GAME OVER / VICTORY screen enters the reset
\* that leads to MapSelect) with no new key press.
C37_FlagsKeptUntilTested ==
    [][\A f \in Flags :
          /\ (Pending(f) /\ ~Pending(f)') =>
                ((rpc' # rpc) /\ rpc \in TestSites(f))
          /\ ((rpc' # rpc) /\ rpc \in TestSites(f) /\ Pending(f)) =>
                (~Pending(f)' /\ TakesEffect(f))]_vars

\* C37 witness: Space is pending during a race, and a racing frame of the
\* render loop has ended without touching it
C37_SpacePendingInRace ==
    /\ currentState = KERNEL_RUNNING /\ st = KERNEL_RUNNING /\ rpc = "write"
    /\ input_edge["space"] /\ player.fDistance > 0

\* ---------------------------------------------------- the warning registers
\* C38: whenever warnObstacle is true, a reader that loads warnObstacleDist and
\* warnObstacleOffsetX next finds a distance in (0, 50] and the distance and
\* offset of one obstacle, the one found by a single warning scan.
C38_WarningRegistersConsistent ==
    warnObstacle =>
        /\ 0 < warnObstacleDist /\ warnObstacleDist <= WARNING_RANGE * Q
        /\ warnObstacleDist = found.dist /\ warnObstacleOffsetX = found.off

\* ---------------------------------------------------------- map selection
\* C39: the render loop's selected map is always in {1, 2, 3}, so LoadMap runs
\* with an id in {1, 2, 3} only, and Game State is never Running with an empty
\* track or a total length of 0.
C39_SelectionValid ==
    /\ \A n \in 1..3 : \A f \in {"up", "down", "1", "2", "3"} : Select(f, TRUE, n) \in 1..3
    /\ nSelectedMap \in 1..3
    /\ g_currentMapId \in 1..3
    /\ rpc = "load_points" => (vecTrack = BuildTrackData(g_currentMapId) /\ vecTrack # << >>)
    /\ currentState = KERNEL_RUNNING => (vecTrack # << >> /\ fTotalTrackLength > 0)

\* C39 witness: Up was taken twice in MAP SELECT and the selection rests on
\* the first map
C39_UpAtFirstMap ==
    /\ st = MAP_SELECT /\ rpc = "sel_space" /\ obs["up"] >= 2 /\ nSelectedMap = 1

\* ------------------------------------------------ steps after entering Running
\* a race on map 2 with the accelerator held, acknowledged and left by Escape,
\* with the clock and the steps since Running recorded
InitBurst == InitRun(ShutdownScript, TRUE, TRUE)
SpecBurst == InitBurst /\ [][Next]_vars

\* C40: after Game State becomes Running, the number of fixed steps that
\* advanced the vehicle is at most floor((time elapsed since Running was
\* entered + dt) / dt), at every point (time that elapsed before Running is
\* never applied to the vehicle).
C40_NoCatchUpBurst == runSteps <= (elapsedTotal - runAt + DT) \div DT

====
